---- MODULE Spec2Model ----
(***************************************************************************)
(* Verification model of the agriwatch crop-analytics backend.             *)
(*                                                                         *)
(* The scoring functions of backend/services/gee_advanced.py,              *)
(* backend/services/anomaly_detection.py and the demo formulas of          *)
(* backend/routers/advanced_analysis.py are pure: each one is modelled as  *)
(* an operator, and a call is a two-step behaviour.  Init draws the        *)
(* arguments of one call (variable call), the action of the called         *)
(* function stores what it returns (variable ret).                         *)
(*                                                                         *)
(* Numbers.  Python floats are modelled by exact fixed-point arithmetic:   *)
(*   index values (NDVI, EVI, ...)        hundredths        0.25 -> 25     *)
(*   temperatures                         tenths of a degree               *)
(*   scores and levels before rounding    1/ScoreUnit       100 -> 396000  *)
(*   round(x, 1) results                  tenths            45.5 -> 455    *)
(*   round(x, 2) results                  hundredths        2.5 -> 250     *)
(* round() is round-half-to-even on the exact value.                       *)
(***************************************************************************)
EXTENDS Integers, Sequences, FiniteSets, TLC

VARIABLES pc, call, ret, jobs_db, task, initialized, initialize_calls

\* the state of the running service: the job registry of routers/analysis.py
\* (jobs_db), the position of each job's background task (task), the
\* _initialized flag of each provider module (initialized) and the number of
\* times ee.Initialize has been called (initialize_calls)
service == <<jobs_db, task, initialized, initialize_calls>>

vars == <<pc, call, ret, jobs_db, task, initialized, initialize_calls>>

\* the service after its modules are imported: 'jobs_db = {}' and
\* '_initialized = False' in both provider modules
ServiceLoaded ==
    /\ jobs_db = <<>>
    /\ task = <<>>
    /\ initialized = [gee_agri |-> FALSE, gee_advanced |-> FALSE]
    /\ initialize_calls = 0

(***************************************************************************)
(* Arithmetic helpers (Python builtins)                                    *)
(***************************************************************************)
Min(a, b) == IF a <= b THEN a ELSE b

Max(a, b) == IF a >= b THEN a ELSE b

Abs(a) == IF a < 0 THEN 0 - a ELSE a

\* round(p / q) for q > 0, ties to the even neighbour
RoundDiv(p, q) ==
    LET f == p \div q
        r == p - f * q
    IN  IF 2 * r < q THEN f
        ELSE IF 2 * r > q THEN f + 1
        ELSE IF f % 2 = 0 THEN f ELSE f + 1

\* the value a scoring function returns before any call has returned
NoResult == [kind |-> "none"]

(***************************************************************************)
(* Index sets: a dict from index name to a float or None.                  *)
(* A value is a record [tag |-> "num" or "null", v |-> hundredths]; the    *)
(* tag "absent" marks a key that the dict built by MkDict does not hold.   *)
(***************************************************************************)
Num(x) == [tag |-> "num", v |-> x]

Null == [tag |-> "null", v |-> 0]

Absent == [tag |-> "absent", v |-> 0]

IsNull(x) == x.tag = "null"

\* dict.get(key, default): the default is used only when the key is absent
Get(d, k, default) == IF k \in DOMAIN d THEN d[k] ELSE Num(default)

\* bool(x) of a dict value: None and 0 are falsy
Truthy(x) == x.tag = "num" /\ x.v # 0

\* the choices for one key: a number of vals, None, or no entry
Opt(vals) == {Num(x) : x \in vals} \cup {Null, Absent}

\* the dict holding the entries of opts that are not Absent
MkDict(opts) == [k \in {j \in DOMAIN opts : opts[j].tag # "absent"} |-> opts[k]]

(***************************************************************************)
(* Crop-type strings and str.lower()                                       *)
(***************************************************************************)
CropInputs == {"wheat", "rice", "Rice", "RICE", "maize", "cotton",
               "sugarcane", "potato", "soybean", "mustard", "banana"}

Lower(s) ==
    CASE s = "Rice" -> "rice"
      [] s = "RICE" -> "rice"
      [] OTHER -> s

(***************************************************************************)
(* Yield estimation                                                        *)
(***************************************************************************)
\* estimate_yield.crop_params; a, b, c in tenths, base_yield in hundredths
YieldParams ==
    [wheat     |-> [a |-> 12, b |-> 45,  c |-> 8,  base_yield |-> 250],
     rice      |-> [a |-> 10, b |-> 50,  c |-> 9,  base_yield |-> 300],
     maize     |-> [a |-> 15, b |-> 60,  c |-> 10, base_yield |-> 400],
     cotton    |-> [a |-> 8,  b |-> 25,  c |-> 6,  base_yield |-> 150],
     sugarcane |-> [a |-> 20, b |-> 400, c |-> 20, base_yield |-> 5000],
     potato    |-> [a |-> 12, b |-> 150, c |-> 12, base_yield |-> 2000],
     soybean   |-> [a |-> 6,  b |-> 20,  c |-> 5,  base_yield |-> 180],
     mustard   |-> [a |-> 4,  b |-> 12,  c |-> 3,  base_yield |-> 100]]

\* crop_params.get(crop_type.lower(), crop_params['wheat'])
YieldParamsFor(crop_type) ==
    IF Lower(crop_type) \in DOMAIN YieldParams
    THEN YieldParams[Lower(crop_type)] ELSE YieldParams["wheat"]

\* estimate_yield(crop_type, ndvi_max, evi_mean, lai_mean); the estimate is
\* held in thousandths, the confidence in thousandths of 1
estimate_yield(crop_type, ndvi_max, evi_mean, lai_mean) ==
    LET params == YieldParamsFor(crop_type)
        estimated_yield == params.base_yield * 10 + params.a * ndvi_max
                           + params.b * evi_mean + params.c * lai_mean
        confidence == Min(950, Max(500, 12 * ndvi_max))
        \* uncertainty = estimated_yield * (1 - confidence) * 0.5, so
        \* estimated_yield -/+ uncertainty, in 1/2000000
        low  == estimated_yield * (1000 + confidence)
        high == estimated_yield * (3000 - confidence)
    IN  [kind |-> "yield",
         estimated_yield_tha |-> RoundDiv(Max(0, estimated_yield), 10),
         yield_min |-> RoundDiv(Max(0, low), 20000),
         yield_max |-> RoundDiv(high, 20000),
         confidence |-> confidence,
         crop_type |-> crop_type]

\* generate_mock_yield.crop_params; base and max in hundredths,
\* ndvi_coef and lai_coef in hundredths
MockYieldParams ==
    [wheat     |-> [base |-> 250,  max |-> 600,   ndvi_coef |-> 400,  lai_coef |-> 30],
     rice      |-> [base |-> 300,  max |-> 700,   ndvi_coef |-> 500,  lai_coef |-> 40],
     maize     |-> [base |-> 400,  max |-> 1000,  ndvi_coef |-> 700,  lai_coef |-> 50],
     cotton    |-> [base |-> 150,  max |-> 350,   ndvi_coef |-> 250,  lai_coef |-> 20],
     sugarcane |-> [base |-> 5000, max |-> 10000, ndvi_coef |-> 6000, lai_coef |-> 500],
     potato    |-> [base |-> 1500, max |-> 3500,  ndvi_coef |-> 2500, lai_coef |-> 200],
     soybean   |-> [base |-> 150,  max |-> 350,   ndvi_coef |-> 250,  lai_coef |-> 20],
     mustard   |-> [base |-> 100,  max |-> 250,   ndvi_coef |-> 200,  lai_coef |-> 15]]

\* crop_params.get(crop_type, crop_params["wheat"]): no lower-casing here
MockYieldParamsFor(crop_type) ==
    IF crop_type \in DOMAIN MockYieldParams
    THEN MockYieldParams[crop_type] ELSE MockYieldParams["wheat"]

\* generate_mock_yield(indices, crop_type); the estimate is held in 1/10000.
\* A None index makes the arithmetic raise TypeError.
generate_mock_yield(indices, crop_type) ==
    LET ndvi == Get(indices, "NDVI", 50)
        lai == Get(indices, "LAI", 300)
        params == MockYieldParamsFor(crop_type)
        raw == params.base * 100 + ndvi.v * params.ndvi_coef + lai.v * params.lai_coef
        estimated == Min(params.max * 100, Max(params.base * 100, raw))
        \* variance = estimated * 0.15
        confidence == Min(950, Max(600, 700 + 3 * ndvi.v))
    IN  IF IsNull(ndvi) \/ IsNull(lai) THEN [kind |-> "TypeError"]
        ELSE [kind |-> "yield",
              estimated_yield_tha |-> RoundDiv(estimated, 100),
              yield_min |-> RoundDiv(85 * estimated, 10000),
              yield_max |-> RoundDiv(115 * estimated, 10000),
              confidence |-> confidence,
              crop_type |-> crop_type]

\* argument values of the yield calls, hundredths
YieldNdvi == {-100, -50, 0, 30, 50, 75, 90}

YieldEvi == {-100, -20, 0, 40, 80}

YieldLai == {-50, 0, 150, 300, 600}

InitYield ==
    /\ pc = "call"
    /\ ret = NoResult
    /\ ServiceLoaded
    /\ \/ \E c \in CropInputs, n \in YieldNdvi, e \in YieldEvi, l \in YieldLai :
            call = [op |-> "estimate_yield", crop_type |-> c,
                    ndvi_max |-> n, evi_mean |-> e, lai_mean |-> l]
       \/ \E c \in CropInputs, n \in Opt(YieldNdvi), l \in Opt(YieldLai) :
            call = [op |-> "generate_mock_yield", crop_type |-> c,
                    indices |-> MkDict([NDVI |-> n, LAI |-> l])]

EstimateYield ==
    /\ pc = "call"
    /\ call.op = "estimate_yield"
    /\ ret' = estimate_yield(call.crop_type, call.ndvi_max, call.evi_mean, call.lai_mean)
    /\ pc' = "done"
    /\ UNCHANGED <<call, service>>

GenerateMockYield ==
    /\ pc = "call"
    /\ call.op = "generate_mock_yield"
    /\ ret' = generate_mock_yield(call.indices, call.crop_type)
    /\ pc' = "done"
    /\ UNCHANGED <<call, service>>

NextYield == EstimateYield \/ GenerateMockYield

SpecYield == InitYield /\ [][NextYield]_vars

\* the parameters a yield call resolves: base and (demo table only) max
YieldReturned == pc = "done" /\ ret.kind = "yield"

\* C1: every yield estimate satisfies yield_min <= estimated_yield_tha <=
\* yield_max, and the point estimate is not below the base yield of the
\* resolved crop nor (where the table has one) above its maximum.
C1_YieldWithinRange ==
    YieldReturned =>
        /\ ret.yield_min <= ret.estimated_yield_tha
        /\ ret.estimated_yield_tha <= ret.yield_max
        /\ call.op = "estimate_yield" =>
              YieldParamsFor(call.crop_type).base_yield <= ret.estimated_yield_tha
        /\ call.op = "generate_mock_yield" =>
              /\ MockYieldParamsFor(call.crop_type).base <= ret.estimated_yield_tha
              /\ ret.estimated_yield_tha <= MockYieldParamsFor(call.crop_type).max

\* C1 restricted to the demo formula, which clamps to [base, max]
C1_MockYieldWithinRange ==
    (YieldReturned /\ call.op = "generate_mock_yield") =>
        /\ ret.yield_min <= ret.estimated_yield_tha
        /\ ret.estimated_yield_tha <= ret.yield_max
        /\ MockYieldParamsFor(call.crop_type).base <= ret.estimated_yield_tha
        /\ ret.estimated_yield_tha <= MockYieldParamsFor(call.crop_type).max

(***************************************************************************)
(* Health score                                                            *)
(***************************************************************************)
\* scores and levels before rounding are held in 1/ScoreUnit, which makes
\* every formula below exact
ScoreUnit == 11 * 9 * 8 * 5

Hundred == 100 * ScoreUnit

\* the clamp without its upper end: max(0, x)
Clamp100_NoCap(x) == Max(0, x)

\* min(100, max(0, x))
Clamp100(x) == Min(Hundred, Max(0, x))

\* round(x, 1), in tenths
Round1(x) == RoundDiv(10 * x, ScoreUnit)

\* get_health_status(score)
get_health_status(score) ==
    IF score >= 80 * ScoreUnit THEN "Excellent"
    ELSE IF score >= 65 * ScoreUnit THEN "Good"
    ELSE IF score >= 50 * ScoreUnit THEN "Moderate"
    ELSE IF score >= 35 * ScoreUnit THEN "Stressed"
    ELSE "Critical"

\* the weights of greenness, vigor, nutrient, water and canopy in the overall
\* score, in hundredths
HealthWeights == <<25, 25, 20, 15, 15>>

\* the same weights in generate_mock_health_score
MockHealthWeights == <<30, 25, 20, 15, 10>>

\* sum(score * weight) over the five components
WeightedScore(scores, weights) ==
    (scores[1] * weights[1] + scores[2] * weights[2] + scores[3] * weights[3]
     + scores[4] * weights[4] + scores[5] * weights[5]) \div 100

\* calculate_crop_health_score(indices)
calculate_crop_health_score(indices) ==
    LET ndvi == Get(indices, "NDVI", 50)
        evi  == Get(indices, "EVI", 40)
        ndre == Get(indices, "NDRE", 40)
        lswi == Get(indices, "LSWI", 20)
        lai  == Get(indices, "LAI", 150)
        \* (ndvi + 0.1) / 1.1 * 100
        greenness == Clamp100(((ndvi.v + 10) * 10 * ScoreUnit) \div 11)
        \* (evi + 0.1) / 0.9 * 100
        vigor == Clamp100(((evi.v + 10) * 10 * ScoreUnit) \div 9)
        \* (ndre + 0.1) / 0.8 * 100
        nutrient == Clamp100(((ndre.v + 10) * 10 * ScoreUnit) \div 8)
        \* (lswi + 0.5) / 1.0 * 100
        water == Clamp100((lswi.v + 50) * ScoreUnit)
        \* lai / 6.0 * 100
        canopy == Clamp100((lai.v * ScoreUnit) \div 6)
        overall == WeightedScore(<<greenness, vigor, nutrient, water, canopy>>,
                                 HealthWeights)
    IN  IF \E x \in {ndvi, evi, ndre, lswi, lai} : IsNull(x)
        THEN [kind |-> "TypeError"]
        ELSE [kind |-> "health",
              overall_score |-> Round1(overall),
              greenness_score |-> Round1(greenness),
              vigor_score |-> Round1(vigor),
              nutrient_score |-> Round1(nutrient),
              water_score |-> Round1(water),
              canopy_score |-> Round1(canopy),
              health_status |-> get_health_status(overall)]

\* generate_mock_health_score(indices)
generate_mock_health_score(indices) ==
    LET ndvi == Get(indices, "NDVI", 50)
        evi  == Get(indices, "EVI", 40)
        ndre == Get(indices, "NDRE", 30)
        lswi == Get(indices, "LSWI", 20)
        lai  == Get(indices, "LAI", 300)
        \* (x + 1) / 2 * 100
        greenness == Clamp100(((ndvi.v + 100) * ScoreUnit) \div 2)
        vigor == Clamp100(((evi.v + 100) * ScoreUnit) \div 2)
        nutrient == Clamp100(((ndre.v + 100) * ScoreUnit) \div 2)
        water == Clamp100(((lswi.v + 100) * ScoreUnit) \div 2)
        canopy == Clamp100((lai.v * ScoreUnit) \div 6)
        overall == WeightedScore(<<greenness, vigor, nutrient, water, canopy>>,
                                 MockHealthWeights)
        status == IF overall >= 80 * ScoreUnit THEN "Excellent"
                  ELSE IF overall >= 65 * ScoreUnit THEN "Good"
                  ELSE IF overall >= 50 * ScoreUnit THEN "Fair"
                  ELSE IF overall >= 35 * ScoreUnit THEN "Poor"
                  ELSE "Critical"
    IN  IF \E x \in {ndvi, evi, ndre, lswi, lai} : IsNull(x)
        THEN [kind |-> "TypeError"]
        ELSE [kind |-> "health",
              overall_score |-> Round1(overall),
              greenness_score |-> Round1(greenness),
              vigor_score |-> Round1(vigor),
              nutrient_score |-> Round1(nutrient),
              water_score |-> Round1(water),
              canopy_score |-> Round1(canopy),
              health_status |-> status]

\* index values offered to the health scorers, hundredths
HealthNdvi == {-150, 35, 95, 400}

HealthEvi == {-150, 30, 85, 400}

HealthNdre == {-150, 20, 75, 400}

HealthLswi == {-150, -20, 55, 400}

HealthLai == {-150, 150, 480, 900}

InitHealth ==
    /\ pc = "call"
    /\ ret = NoResult
    /\ ServiceLoaded
    /\ \E f \in {"calculate_crop_health_score", "generate_mock_health_score"},
          n \in Opt(HealthNdvi), e \in Opt(HealthEvi), r \in Opt(HealthNdre),
          w \in Opt(HealthLswi), l \in Opt(HealthLai) :
            call = [op |-> f,
                    indices |-> MkDict([NDVI |-> n, EVI |-> e, NDRE |-> r,
                                        LSWI |-> w, LAI |-> l])]

CalculateCropHealthScore ==
    /\ pc = "call"
    /\ call.op = "calculate_crop_health_score"
    /\ ret' = calculate_crop_health_score(call.indices)
    /\ pc' = "done"
    /\ UNCHANGED <<call, service>>

GenerateMockHealthScore ==
    /\ pc = "call"
    /\ call.op = "generate_mock_health_score"
    /\ ret' = generate_mock_health_score(call.indices)
    /\ pc' = "done"
    /\ UNCHANGED <<call, service>>

NextHealth == CalculateCropHealthScore \/ GenerateMockHealthScore

SpecHealth == InitHealth /\ [][NextHealth]_vars

\* the five component scores of a returned health record
ComponentScores(h) ==
    {h.greenness_score, h.vigor_score, h.nutrient_score, h.water_score,
     h.canopy_score}

SumSeq5(w) == w[1] + w[2] + w[3] + w[4] + w[5]

HealthCall ==
    call.op \in {"calculate_crop_health_score", "generate_mock_health_score"}

\* every value the dict holds is a number
NoNullIn(d) == \A k \in DOMAIN d : ~IsNull(d[k])

\* C7: for every index set whose entries are numbers (any magnitude, any
\* keys missing) the health scorer returns six scores in [0,100] (tenths:
\* 0..1000), the weights sum to 1.0, and the overall score lies between the
\* smallest and the largest component score.
C7_HealthScoresBounded ==
    /\ SumSeq5(HealthWeights) = 100
    /\ SumSeq5(MockHealthWeights) = 100
    /\ (pc = "done" /\ HealthCall /\ NoNullIn(call.indices)) =>
          /\ ret.kind = "health"
          /\ \A x \in ComponentScores(ret) \cup {ret.overall_score} :
                0 <= x /\ x <= 1000
          /\ \E lo \in ComponentScores(ret) : lo <= ret.overall_score
          /\ \E hi \in ComponentScores(ret) : ret.overall_score <= hi

\* a health score was returned for a dict that lacks LAI and whose NDVI and
\* EVI are beyond both ends of the scale
C7_Witness ==
    /\ pc = "done"
    /\ call.op = "calculate_crop_health_score"
    /\ ret.kind = "health"
    /\ "LAI" \notin DOMAIN call.indices
    /\ ret.greenness_score = 1000
    /\ ret.vigor_score = 0
    /\ ret.overall_score > 0

(***************************************************************************)
(* Stress detection                                                        *)
(* The weather argument is [given |-> BOOLEAN, d |-> dict]; given is FALSE *)
(* for weather=None.  Temperatures are in tenths of a degree.              *)
(***************************************************************************)
NoWeather == [given |-> FALSE, d |-> MkDict([temperature_c |-> Absent])]

Weather(t) == [given |-> TRUE, d |-> MkDict([temperature_c |-> t])]

\* 'Critical' if level > 70 else 'Warning' if level > 40 else 'Normal'
StressStatus(level) ==
    IF level > 70 * ScoreUnit THEN "Critical"
    ELSE IF level > 40 * ScoreUnit THEN "Warning"
    ELSE "Normal"

\* 'High' if soil_exposure > 60 else 'Moderate' if soil_exposure > 30 else 'Low'
SoilStatus(level) ==
    IF level > 60 * ScoreUnit THEN "High"
    ELSE IF level > 30 * ScoreUnit THEN "Moderate"
    ELSE "Low"

\* detect_stress(indices, weather)
detect_stress(indices, weather) ==
    LET ndvi == Get(indices, "NDVI", 50)
        lswi == Get(indices, "LSWI", 20)
        ndmi == Get(indices, "NDMI", 20)
        ndre == Get(indices, "NDRE", 40)
        evi  == Get(indices, "EVI", 40)
        bsi  == Get(indices, "BSI", -10)
        water_stress_level ==
            IF lswi.v < 0 THEN Min(Hundred, Abs(lswi.v) * 2 * ScoreUnit)
            ELSE IF lswi.v < 10 THEN 50 * ScoreUnit - lswi.v * 5 * ScoreUnit
            ELSE 0
        nutrient_stress_level ==
            IF ndre.v < 30 THEN ((30 - ndre.v) * 10 * ScoreUnit) \div 3 ELSE 0
        temp == IF weather.given /\ "temperature_c" \in DOMAIN weather.d
                THEN weather.d["temperature_c"] ELSE Null
        heat_stress_level ==
            IF Truthy(temp) /\ temp.v > 350
            THEN Min(Hundred, (temp.v - 350) * ScoreUnit) ELSE 0
        vegetation_stress ==
            IF ndvi.v < 40 THEN ((40 - ndvi.v) * 5 * ScoreUnit) \div 2 ELSE 0
        soil_exposure ==
            IF Truthy(bsi) THEN Max(0, (bsi.v + 50) * ScoreUnit) ELSE 0
    IN  \* None < 0 raises TypeError; ndmi, evi and a None bsi are never
        \* used in arithmetic
        IF IsNull(lswi) \/ IsNull(ndre) \/ IsNull(ndvi)
        THEN [kind |-> "TypeError"]
        ELSE [kind |-> "stress",
              water_stress |-> [level |-> Round1(water_stress_level),
                                status |-> StressStatus(water_stress_level)],
              nutrient_stress |-> [level |-> Round1(nutrient_stress_level),
                                   status |-> StressStatus(nutrient_stress_level)],
              heat_stress |-> [level |-> Round1(heat_stress_level),
                               status |-> StressStatus(heat_stress_level)],
              vegetation_stress |-> [level |-> Round1(vegetation_stress),
                                     status |-> StressStatus(vegetation_stress)],
              soil_exposure |-> [level |-> Round1(soil_exposure),
                                 status |-> SoilStatus(soil_exposure)]]

\* generate_mock_stress.get_status(level)
get_status(level) ==
    IF level < 25 * ScoreUnit THEN "normal"
    ELSE IF level < 50 * ScoreUnit THEN "moderate"
    ELSE IF level < 75 * ScoreUnit THEN "high"
    ELSE "critical"

\* generate_mock_stress(indices, weather); weather is always a dict here
generate_mock_stress(indices, weather) ==
    LET lswi == Get(indices, "LSWI", 20)
        ndre == Get(indices, "NDRE", 30)
        ndvi == Get(indices, "NDVI", 50)
        bsi  == Get(indices, "BSI", 0)
        temp == Get(weather.d, "temperature_c", 250)
        \* (0.3 - lswi) / 0.6 * 100
        water_level == Clamp100(((30 - lswi.v) * 5 * ScoreUnit) \div 3)
        \* (0.4 - ndre) / 0.8 * 100
        nutrient_level == Clamp100(((40 - ndre.v) * 5 * ScoreUnit) \div 4)
        \* (temp - 25) / 20 * 100
        heat_level == IF temp.v > 250
                      THEN Clamp100(((temp.v - 250) * ScoreUnit) \div 2) ELSE 0
        \* (0.5 - ndvi) / 1 * 100
        veg_level == Clamp100((50 - ndvi.v) * ScoreUnit)
        \* (bsi + 0.2) / 0.4 * 100
        soil_level == Clamp100(((bsi.v + 20) * 5 * ScoreUnit) \div 2)
    IN  IF \E x \in {lswi, ndre, ndvi, bsi, temp} : IsNull(x)
        THEN [kind |-> "TypeError"]
        ELSE [kind |-> "stress",
              water_stress |-> [level |-> Round1(water_level),
                                status |-> get_status(water_level)],
              nutrient_stress |-> [level |-> Round1(nutrient_level),
                                   status |-> get_status(nutrient_level)],
              heat_stress |-> [level |-> Round1(heat_level),
                               status |-> get_status(heat_level)],
              vegetation_stress |-> [level |-> Round1(veg_level),
                                     status |-> get_status(veg_level)],
              soil_exposure |-> [level |-> Round1(soil_level),
                                 status |-> get_status(soil_level)]]

\* get_risk_assessment.make_factor(name, base_level); noise is the value
\* random.uniform(-10, 10) returns.  base_level and noise are in tenths.
make_factor(name, base_level, noise) ==
    LET level == Clamp100(((base_level + noise) * ScoreUnit) \div 10)
        status == IF level < 25 * ScoreUnit THEN "low"
                  ELSE IF level < 50 * ScoreUnit THEN "moderate"
                  ELSE IF level < 75 * ScoreUnit THEN "high"
                  ELSE "critical"
    IN  [kind |-> "factor", name |-> name, level |-> Round1(level),
         status |-> status]

\* index values and temperatures offered to the stress detectors
StressNdvi == {-20, 15, 30, 60}

StressLswi == {-65, -15, 5, 30}

StressNdre == {-50, 10, 22, 45}

StressBsi == {-60, 0, 5, 90}

StressNdmi == {20}

StressTemp == {0, 300, 380, 470}

RiskFactorNames == {"drought", "flood", "pest", "disease", "frost", "heatwave"}

\* base levels and noise of make_factor, tenths
FactorBase == {50, 200, 250, 400, 500, 650, 750, 990}

FactorNoise == {-100, -1, 0, 1, 100}

InitStress ==
    /\ pc = "call"
    /\ ret = NoResult
    /\ ServiceLoaded
    /\ \/ \E n \in Opt(StressNdvi), w \in Opt(StressLswi), r \in Opt(StressNdre),
             b \in Opt(StressBsi), m \in Opt(StressNdmi),
             wx \in {NoWeather} \cup {Weather(t) : t \in Opt(StressTemp)} :
            call = [op |-> "detect_stress", weather |-> wx,
                    indices |-> MkDict([NDVI |-> n, LSWI |-> w, NDRE |-> r,
                                        BSI |-> b, NDMI |-> m])]
       \/ \E n \in Opt(StressNdvi), w \in Opt(StressLswi), r \in Opt(StressNdre),
             b \in Opt(StressBsi), t \in Opt(StressTemp) :
            call = [op |-> "generate_mock_stress", weather |-> Weather(t),
                    indices |-> MkDict([NDVI |-> n, LSWI |-> w, NDRE |-> r,
                                        BSI |-> b])]
       \/ \E nm \in RiskFactorNames, b \in FactorBase, z \in FactorNoise :
            call = [op |-> "make_factor", name |-> nm, base_level |-> b,
                    noise |-> z]

DetectStress ==
    /\ pc = "call"
    /\ call.op = "detect_stress"
    /\ ret' = detect_stress(call.indices, call.weather)
    /\ pc' = "done"
    /\ UNCHANGED <<call, service>>

GenerateMockStress ==
    /\ pc = "call"
    /\ call.op = "generate_mock_stress"
    /\ ret' = generate_mock_stress(call.indices, call.weather)
    /\ pc' = "done"
    /\ UNCHANGED <<call, service>>

MakeFactor ==
    /\ pc = "call"
    /\ call.op = "make_factor"
    /\ ret' = make_factor(call.name, call.base_level, call.noise)
    /\ pc' = "done"
    /\ UNCHANGED <<call, service>>

NextStress == DetectStress \/ GenerateMockStress \/ MakeFactor

SpecStress == InitStress /\ [][NextStress]_vars

\* the five level records of a returned stress assessment
StressRecords(r) ==
    {r.water_stress, r.nutrient_stress, r.heat_stress, r.vegetation_stress,
     r.soil_exposure}

\* C2: each of the five stress levels returned by detect_stress and by
\* generate_mock_stress lies in [0,100] (tenths: 0..1000).
C2_StressLevelsBounded ==
    (pc = "done" /\ ret.kind = "stress") =>
        \A s \in StressRecords(ret) : 0 <= s.level /\ s.level <= 1000

\* the rung of a status label on the four-step ladder, whatever its
\* capitalisation; "Warning" is a label the ladder does not have
StatusRung(status) ==
    CASE status \in {"normal", "Normal", "low", "Low"} -> 0
      [] status \in {"moderate", "Moderate"} -> 1
      [] status \in {"high", "High"} -> 2
      [] status \in {"critical", "Critical"} -> 3
      [] OTHER -> 4

\* the rung the 25/50/75 ladder gives a level (tenths)
LadderRung(level) ==
    IF level < 250 THEN 0
    ELSE IF level < 500 THEN 1
    ELSE IF level < 750 THEN 2
    ELSE 3

\* C8: the status of every stress level and of every risk factor level is
\* the one the ladder <25 normal/low, <50 moderate, <75 high, >=75 critical
\* gives that level.
C8_StatusFollowsLadder ==
    /\ (pc = "done" /\ ret.kind = "stress") =>
          \A s \in StressRecords(ret) : StatusRung(s.status) = LadderRung(s.level)
    /\ (pc = "done" /\ ret.kind = "factor") =>
          StatusRung(ret.status) = LadderRung(ret.level)

(***************************************************************************)
(* Crop damage                                                             *)
(* A weather sample is a dict with temperature_c (tenths of a degree) and  *)
(* precipitation_mm (tenths of a millimetre).                              *)
(***************************************************************************)
\* s[-n:]
LastN(s, n) == SubSeq(s, Max(1, Len(s) - n + 1), Len(s))

\* max(values) of a non-empty sequence of numbers
RECURSIVE MaxSeq(_)
MaxSeq(s) == IF Len(s) = 1 THEN s[1] ELSE Max(s[1], MaxSeq(Tail(s)))

\* sum(values)
RECURSIVE SumRange(_, _, _)
SumRange(s, lo, hi) ==
    IF lo > hi THEN 0
    ELSE IF lo = hi THEN s[lo]
    ELSE LET mid == (lo + hi) \div 2
         IN  SumRange(s, lo, mid) + SumRange(s, mid + 1, hi)

SumSeq(s) == SumRange(s, 1, Len(s))

\* get_damage_recommendation(indicators, crop_type): one entry per pair of
\* advice lines the function appends
get_damage_recommendation(indicators, crop_type) ==
    LET damage_types == {indicators[i].type : i \in DOMAIN indicators}
        irrigate == IF "water_stress" \in damage_types \/ "drought_impact" \in damage_types
                    THEN <<"irrigation">> ELSE << >>
        fertilize == IF "nutrient_deficiency" \in damage_types
                     THEN <<"fertilizer">> ELSE << >>
        shade == IF "heat_damage" \in damage_types THEN <<"shade">> ELSE << >>
        inspect == IF "vegetation_decline" \in damage_types
                   THEN <<"inspection">> ELSE << >>
        replant == IF "soil_exposure" \in damage_types THEN <<"replanting">> ELSE << >>
        recommendations == irrigate \o fertilize \o shade \o inspect \o replant
    IN  IF recommendations = << >> THEN <<"monitoring">> ELSE recommendations

\* "damage_score": min(100, overall_damage_score)
DamageScore_Unclamped(overall_damage_score) == overall_damage_score

DamageScore(overall_damage_score) == Min(100, overall_damage_score)

\* detect_crop_damage(indices, weather_history, crop_type)
detect_crop_damage(indices, weather_history, crop_type) ==
    LET ndvi == Get(indices, "NDVI", 50)
        ndre == Get(indices, "NDRE", 30)
        lswi == Get(indices, "LSWI", 20)
        bsi  == Get(indices, "BSI", 0)
        ind(type, severe) ==
            <<[type |-> type, severity |-> IF severe THEN "severe" ELSE "moderate"]>>
        vegetation == IF ndvi.v < 30 THEN ind("vegetation_decline", ndvi.v < 20) ELSE << >>
        water == IF lswi.v < 0 THEN ind("water_stress", lswi.v < -20) ELSE << >>
        nutrient == IF ndre.v < 20 THEN ind("nutrient_deficiency", ndre.v < 10) ELSE << >>
        soil == IF bsi.v > 10 THEN ind("soil_exposure", bsi.v > 20) ELSE << >>
        index_score ==
            (IF ndvi.v < 30 THEN (IF ndvi.v < 20 THEN 30 ELSE 15) ELSE 0)
            + (IF lswi.v < 0 THEN (IF lswi.v < -20 THEN 25 ELSE 12) ELSE 0)
            + (IF ndre.v < 20 THEN (IF ndre.v < 10 THEN 20 ELSE 10) ELSE 0)
            + (IF bsi.v > 10 THEN (IF bsi.v > 20 THEN 25 ELSE 12) ELSE 0)
        temps == LastN(weather_history, 7)
        rains == LastN(weather_history, 14)
        recent_temps == [i \in DOMAIN temps |-> Get(temps[i], "temperature_c", 250)]
        recent_rain == [i \in DOMAIN rains |-> Get(rains[i], "precipitation_mm", 0)]
        recent_precip == SumSeq([i \in DOMAIN recent_rain |-> recent_rain[i].v])
        hot == weather_history # << >>
               /\ MaxSeq([i \in DOMAIN recent_temps |-> recent_temps[i].v]) > 400
        dry == weather_history # << >> /\ recent_precip < 50
        heat == IF hot THEN ind("heat_damage", FALSE) ELSE << >>
        drought == IF dry THEN ind("drought_impact", FALSE) ELSE << >>
        damage_indicators == vegetation \o water \o nutrient \o soil \o heat \o drought
        overall_damage_score ==
            index_score + (IF hot THEN 15 ELSE 0) + (IF dry THEN 15 ELSE 0)
        status == IF overall_damage_score >= 60 THEN "critical"
                  ELSE IF overall_damage_score >= 40 THEN "high"
                  ELSE IF overall_damage_score >= 20 THEN "moderate"
                  ELSE "low"
    IN  \* a None index fails in its comparison, a None weather value in
        \* max() > 40 or in sum()
        IF \/ \E x \in {ndvi, ndre, lswi, bsi} : IsNull(x)
           \/ \E i \in DOMAIN recent_temps : IsNull(recent_temps[i])
           \/ \E i \in DOMAIN recent_rain : IsNull(recent_rain[i])
        THEN [kind |-> "TypeError"]
        ELSE [kind |-> "damage",
              damage_score |-> DamageScore(overall_damage_score),
              status |-> status,
              indicators |-> damage_indicators,
              recommendation |-> get_damage_recommendation(damage_indicators, crop_type)]

\* index values offered to detect_crop_damage, hundredths
DamageNdvi == {10, 25, 50}

DamageLswi == {-30, -10, 20}

DamageNdre == {5, 15, 30}

DamageBsi == {0, 15, 25}

\* weather samples: hot and dry, mild and wet, and one without any reading
HotDry == MkDict([temperature_c |-> Num(420), precipitation_mm |-> Num(0)])

MildWet == MkDict([temperature_c |-> Num(280), precipitation_mm |-> Num(60)])

NoReading == MkDict([temperature_c |-> Absent, precipitation_mm |-> Absent])

WeatherSamples == {HotDry, MildWet, NoReading}

\* longest weather history drawn sample by sample
MaxWeather == 2

\* n copies of sample x
Repeat(x, n) == [i \in 1..n |-> x]

\* histories of up to MaxWeather samples, and histories long enough for
\* the 7- and 14-sample windows to cut off their oldest samples
WeatherHistories ==
    LET short == UNION {[1..n -> WeatherSamples] : n \in 0..MaxWeather}
    IN  short \cup {Repeat(old, 1) \o Repeat(new, n) :
                       old \in WeatherSamples, new \in WeatherSamples, n \in {6, 7, 13, 14}}

InitDamage ==
    /\ pc = "call"
    /\ ret = NoResult
    /\ ServiceLoaded
    /\ \E n \in Opt(DamageNdvi), w \in Opt(DamageLswi), r \in Opt(DamageNdre),
          b \in Opt(DamageBsi), h \in WeatherHistories :
            call = [op |-> "detect_crop_damage", weather_history |-> h,
                    crop_type |-> "wheat",
                    indices |-> MkDict([NDVI |-> n, LSWI |-> w, NDRE |-> r,
                                        BSI |-> b])]

DetectCropDamage ==
    /\ pc = "call"
    /\ call.op = "detect_crop_damage"
    /\ ret' = detect_crop_damage(call.indices, call.weather_history, call.crop_type)
    /\ pc' = "done"
    /\ UNCHANGED <<call, service>>

SpecDamage == InitDamage /\ [][DetectCropDamage]_vars

\* detect_crop_damage has returned for indices that hold no None
DamageReturned ==
    /\ pc = "done"
    /\ call.op = "detect_crop_damage"
    /\ \A k \in DOMAIN call.indices : ~IsNull(call.indices[k])

\* the score an indicator adds
Increment(indicator) ==
    LET severe == indicator.severity = "severe"
    IN  IF indicator.type = "vegetation_decline" THEN (IF severe THEN 30 ELSE 15)
        ELSE IF indicator.type = "water_stress" THEN (IF severe THEN 25 ELSE 12)
        ELSE IF indicator.type = "nutrient_deficiency" THEN (IF severe THEN 20 ELSE 10)
        ELSE IF indicator.type = "soil_exposure" THEN (IF severe THEN 25 ELSE 12)
        ELSE 15

\* C14: damage_score is the sum of the fired increments clamped to 100 and
\* lies in [0,100]; the status is the 20/40/60 ladder applied to the returned
\* score (critical >= 60, high >= 40, moderate >= 20, low below 20); with
\* every index at its default and no weather history the score is 0 and the
\* status "low".
C14_DamageScoreAndStatus ==
    DamageReturned =>
        LET fired == SumSeq([i \in DOMAIN ret.indicators |-> Increment(ret.indicators[i])])
        IN  /\ ret.kind = "damage"
            /\ 0 <= ret.damage_score /\ ret.damage_score <= 100
            /\ ret.damage_score = (IF fired > 100 THEN 100 ELSE fired)
            /\ ret.status = (IF ret.damage_score >= 60 THEN "critical"
                             ELSE IF ret.damage_score >= 40 THEN "high"
                             ELSE IF ret.damage_score >= 20 THEN "moderate"
                             ELSE "low")
            /\ (DOMAIN call.indices = {} /\ call.weather_history = << >>) =>
                   (ret.damage_score = 0 /\ ret.status = "low")

\* all six indicators fire: the increments add up to 130 and are clamped
C14_Witness ==
    /\ DamageReturned
    /\ Len(ret.indicators) = 6
    /\ SumSeq([i \in DOMAIN ret.indicators |-> Increment(ret.indicators[i])]) = 130
    /\ ret.damage_score = 100
    /\ ret.status = "critical"

(***************************************************************************)
(* Comprehensive analysis: provider statistics -> mean indices -> scores   *)
(* The provider's reduceRegion result is a dict keyed by <<index, stat>>;  *)
(* a statistic the provider could not compute has no entry.                *)
(***************************************************************************)
\* the indices run_comprehensive_analysis requests
RequestedIndices ==
    {"NDVI", "EVI", "NDRE", "GNDVI", "SAVI", "MSAVI2", "LSWI", "NDMI", "NDWI",
     "LAI", "fPAR", "BSI"}

\* calculate_index_stats: result[index] = {'mean': stats.get(index_mean), ...};
\* dict.get without a default gives None for a missing statistic
calculate_index_stats(stats, indices) ==
    [i \in indices |->
        [mean |-> IF <<i, "mean">> \in DOMAIN stats THEN stats[<<i, "mean">>] ELSE Null,
         max  |-> IF <<i, "max">> \in DOMAIN stats THEN stats[<<i, "max">>] ELSE Null]]

\* run_comprehensive_analysis, from the provider's statistics and weather on
run_comprehensive_analysis(stats, weather, crop_type) ==
    LET index_stats == calculate_index_stats(stats, RequestedIndices)
        \* {k: v.get('mean', 0) ...}: the key 'mean' is always there
        mean_indices == [k \in DOMAIN index_stats |-> index_stats[k].mean]
        health == calculate_crop_health_score(mean_indices)
        stress == detect_stress(mean_indices, weather)
        ndvi_max == index_stats["NDVI"].max
        evi_mean == Get(mean_indices, "EVI", 40)
        lai_mean == Get(mean_indices, "LAI", 200)
    IN  IF \/ health.kind = "TypeError"
           \/ stress.kind = "TypeError"
           \/ \E x \in {ndvi_max, evi_mean, lai_mean} : IsNull(x)
        THEN [kind |-> "TypeError"]
        ELSE [kind |-> "comprehensive",
              mean_indices |-> mean_indices,
              health |-> health,
              stress |-> stress,
              yield_estimate |-> estimate_yield(crop_type, ndvi_max.v,
                                                evi_mean.v, lai_mean.v)]

\* the statistics the scorers read; each may be missing from the provider's
\* result (an index whose denominator was zero over the whole field)
ScoredIndices == {"NDVI", "EVI", "NDRE", "LSWI", "LAI", "BSI"}

\* the value the provider reports for a statistic it has, hundredths
ProviderValue(i) ==
    CASE i = "LAI" -> 210
      [] i = "BSI" -> -5
      [] i = "LSWI" -> 15
      [] OTHER -> 45

ProviderStats ==
    {[k \in (have \X {"mean"}) \cup (hasmax \X {"max"}) |-> Num(ProviderValue(k[1]))] :
        have \in SUBSET ScoredIndices, hasmax \in SUBSET {"NDVI"}}

InitComprehensive ==
    /\ pc = "call"
    /\ ret = NoResult
    /\ ServiceLoaded
    /\ \E st \in ProviderStats, t \in {Null, Num(310), Num(390)} :
            call = [op |-> "run_comprehensive_analysis", stats |-> st,
                    weather |-> Weather(t), crop_type |-> "wheat"]

RunComprehensiveAnalysis ==
    /\ pc = "call"
    /\ call.op = "run_comprehensive_analysis"
    /\ ret' = run_comprehensive_analysis(call.stats, call.weather, call.crop_type)
    /\ pc' = "done"
    /\ UNCHANGED <<call, service>>

(***************************************************************************)
(* The scorers under undefined indices                                     *)
(***************************************************************************)
InitScorers == InitHealth \/ InitStress \/ InitDamage \/ InitComprehensive

NextScorers ==
    \/ CalculateCropHealthScore
    \/ GenerateMockHealthScore
    \/ DetectStress
    \/ GenerateMockStress
    \/ MakeFactor
    \/ DetectCropDamage
    \/ RunComprehensiveAnalysis

SpecScorers == InitScorers /\ [][NextScorers]_vars

\* the dict without its None entries: what the scorer sees once every
\* undefined index is treated as missing
Defined(d) == [k \in {j \in DOMAIN d : ~IsNull(d[j])} |-> d[k]]

\* C3: with an undefined index (key absent, or present with None),
\* calculate_crop_health_score, detect_stress and detect_crop_damage use
\* the default of that index and return a normal result, never an error;
\* so does run_comprehensive_analysis on statistics the provider lacks.
C3_UndefinedIndexDefaulted ==
    pc = "done" =>
        /\ call.op = "calculate_crop_health_score" =>
              /\ ret.kind = "health"
              /\ ret = calculate_crop_health_score(Defined(call.indices))
        /\ call.op = "detect_stress" =>
              /\ ret.kind = "stress"
              /\ ret = detect_stress(Defined(call.indices), call.weather)
        /\ call.op = "detect_crop_damage" =>
              /\ ret.kind = "damage"
              /\ ret = detect_crop_damage(Defined(call.indices),
                                          call.weather_history, call.crop_type)
        /\ call.op = "run_comprehensive_analysis" =>
              ret.kind = "comprehensive"

(***************************************************************************)
(* NDVI anomaly detection                                                  *)
(* NDVI values are in hundredths, threshold_std in tenths.  The z-score    *)
(* involves a square root, so |z| / threshold_std is kept as a magnitude   *)
(* [sq, num, den]: num/den when sq is FALSE, sqrt(num/den) when TRUE, and  *)
(* is only ever compared with rationals.                                   *)
(***************************************************************************)
\* the sign of a/b - c/d for a, c >= 0 and b, d > 0, by continued fractions
\* (no product of the four numbers is formed)
RECURSIVE CmpFrac(_, _, _, _)
CmpFrac(a, b, c, d) ==
    LET qa == a \div b
        qc == c \div d
        ra == a - qa * b
        rc == c - qc * d
    IN  IF qa < qc THEN -1
        ELSE IF qa > qc THEN 1
        ELSE IF ra = 0 /\ rc = 0 THEN 0
        ELSE IF ra = 0 THEN -1
        ELSE IF rc = 0 THEN 1
        ELSE CmpFrac(d, rc, b, ra)

\* the sign of m - p/q for a magnitude m and p, q > 0
CmpMag(m, p, q) ==
    IF m.sq THEN CmpFrac(m.num, m.den, p * p, q * q)
    ELSE CmpFrac(m.num, m.den, p, q)

\* the largest k in lo..hi with m * scale >= k - 1/2, given that lo is one
RECURSIVE RoundSearch(_, _, _, _)
RoundSearch(m, scale, lo, hi) ==
    IF lo = hi THEN lo
    ELSE LET mid == (lo + hi + 1) \div 2
         IN  IF CmpMag(m, 2 * mid - 1, 2 * scale) >= 0
             THEN RoundSearch(m, scale, mid, hi)
             ELSE RoundSearch(m, scale, lo, mid - 1)

\* round(min(cap, m * scale)) for a magnitude m, ties to the even neighbour
RoundMagCapped(m, scale, cap) ==
    LET k == RoundSearch(m, scale, 0, cap)
    IN  IF k > 0 /\ k % 2 = 1 /\ CmpMag(m, 2 * k - 1, 2 * scale) = 0
        THEN k - 1 ELSE k

\* the else branch of 'std = math.sqrt(variance) if variance > 0 else 0.001',
\* in hundredths
StdFloor == [num |-> 1, den |-> 10]

\* the guard 'len(historical_values) < 5', negated
EnoughHistory_Three(historical_values) == Len(historical_values) >= 3

EnoughHistory(historical_values) == Len(historical_values) >= 5

\* confidence = min(100, abs(z_score) / threshold_std * 50), rounded to one
\* decimal; ratio is abs(z_score) / threshold_std
Confidence_Times100(ratio) == RoundMagCapped(ratio, 1000, 1000)

Confidence(ratio) == RoundMagCapped(ratio, 500, 1000)

\* Whether 'mean = sum(historical_values) / len(historical_values)' of a
\* constant history differs from the constant in double arithmetic, so that
\* 'variance' is a rounding residue above zero: for 0.2 from 6 values on, for
\* 0.3 and 0.6 from 10 values on, never for 0.5 (histories of 5 to 12 values).
\* The mean then lies below the constant and every (x - mean) is the same
\* residue, of the order of 1e-17.
SumRounds(historical_values) ==
    LET n == Len(historical_values)
    IN  /\ n >= 5
        /\ \A i \in 1..n : historical_values[i] = historical_values[1]
        /\ \/ historical_values[1] = 20 /\ n >= 6
           \/ historical_values[1] \in {30, 60} /\ n >= 10

\* abs(z_score) / threshold_std as a magnitude, for threshold_std > 0:
\*   mean = sum(historical_values) / len(historical_values)
\*   variance = sum((x - mean) ** 2 for x in historical_values) / len(...)
\*   std = math.sqrt(variance) if variance > 0 else 0.001
\*   z_score = (current_ndvi - mean) / std
ZRatio(current_ndvi, historical_values, threshold_std) ==
    LET n == Len(historical_values)
        total == SumSeq(historical_values)
        \* x - mean = (n * x - total) / n, so variance = sumsq / n^3 = v / n^2
        sumsq == SumSeq([i \in 1..n |->
                     (n * historical_values[i] - total) * (n * historical_values[i] - total)])
        v == sumsq \div n
        \* current_ndvi - mean = d / n
        d == n * current_ndvi - total
    IN  IF sumsq > 0
        THEN \* z^2 = (d / n)^2 / (v / n^2) = d^2 / v
             [sq |-> TRUE, num |-> 100 * d * d,
              den |-> v * threshold_std * threshold_std]
        ELSE IF SumRounds(historical_values)
        THEN \* std is the residue: z is 1 when current_ndvi is the constant
             \* and beyond 1e13 otherwise (entered as d / n over 1e-6, which
             \* compares and rounds alike)
             IF d = 0 THEN [sq |-> FALSE, num |-> 10, den |-> threshold_std]
             ELSE [sq |-> FALSE, num |-> 100000 * Abs(d),
                   den |-> n * threshold_std]
        ELSE \* z = (d / n) / 0.001
             [sq |-> FALSE, num |-> 10 * Abs(d) * StdFloor.den,
              den |-> n * StdFloor.num * threshold_std]

\* detect_ndvi_anomaly(current_ndvi, historical_values, threshold_std) for
\* threshold_std >= 0.  The rounded z_score and historical_std of the result
\* are not modelled.
detect_ndvi_anomaly(current_ndvi, historical_values, threshold_std) ==
    LET n == Len(historical_values)
        total == SumSeq(historical_values)
        ratio == ZRatio(current_ndvi, historical_values, threshold_std)
        \* abs(z_score) > threshold_std
        is_anomaly == CmpMag(ratio, 1, 1) > 0
        declined == n * current_ndvi < total
    IN  IF ~EnoughHistory(historical_values)
        THEN [kind |-> "anomaly", is_anomaly |-> FALSE, confidence |-> 0,
              message |-> "Insufficient historical data"]
        ELSE IF threshold_std = 0
        THEN \* abs(z_score) / threshold_std
             [kind |-> "ZeroDivisionError"]
        ELSE [kind |-> "anomaly",
              is_anomaly |-> is_anomaly,
              anomaly_type |-> IF ~is_anomaly THEN "normal"
                               ELSE IF declined THEN "significant_decline"
                               ELSE "unexpected_increase",
              confidence |-> Confidence(ratio),
              current_value |-> current_ndvi,
              historical_mean |-> RoundDiv(10 * total, n),
              message |-> IF ~is_anomaly THEN "NDVI within normal range"
                          ELSE IF declined THEN "NDVI dropped significantly"
                          ELSE "NDVI increased unexpectedly"]

\* historical and current NDVI values, hundredths; thresholds, tenths
HistoryValues == {20, 30, 60}

CurrentValues == {5, 20, 30, 50, 61, 90}

Thresholds == {0, 5, 10, 20, 30}

\* values of the constant histories
ConstantValues == {30, 50}

\* longest history drawn value by value
MaxHistory == 6

\* longest constant history
MaxConstant == 10

Histories ==
    UNION {[1..n -> HistoryValues] : n \in 0..MaxHistory}
    \cup {[i \in 1..n |-> x] : n \in 1..MaxConstant, x \in ConstantValues}

InitAnomaly ==
    /\ pc = "call"
    /\ ret = NoResult
    /\ ServiceLoaded
    /\ \E c \in CurrentValues, h \in Histories, t \in Thresholds :
            call = [op |-> "detect_ndvi_anomaly", current_ndvi |-> c,
                    historical_values |-> h, threshold_std |-> t]

DetectNdviAnomaly ==
    /\ pc = "call"
    /\ call.op = "detect_ndvi_anomaly"
    /\ ret' = detect_ndvi_anomaly(call.current_ndvi, call.historical_values,
                                  call.threshold_std)
    /\ pc' = "done"
    /\ UNCHANGED <<call, service>>

SpecAnomaly == InitAnomaly /\ [][DetectNdviAnomaly]_vars

AnomalyReturned == pc = "done" /\ call.op = "detect_ndvi_anomaly"

\* C4: with fewer than 5 historical values detect_ndvi_anomaly returns
\* is_anomaly = false, confidence = 0 and the insufficient-data message for
\* any current value and threshold; it raises nothing and the result holds
\* no anomaly type, mean or other trace of a z-score computation.
C4_InsufficientHistory ==
    (AnomalyReturned /\ Len(call.historical_values) < 5) =>
        /\ ret.kind = "anomaly"
        /\ ret.is_anomaly = FALSE
        /\ ret.confidence = 0
        /\ ret.message = "Insufficient historical data"
        /\ DOMAIN ret = {"kind", "is_anomaly", "confidence", "message"}

\* four values far below the current one, and a threshold of 0 that would
\* divide by zero had a z-score been computed
C4_Witness ==
    /\ AnomalyReturned
    /\ call.historical_values = <<20, 20, 20, 20>>
    /\ call.current_ndvi = 90
    /\ call.threshold_std = 0
    /\ ret.message = "Insufficient historical data"

\* abs((current - mean) / std) > threshold_std, stated on the sums: with
\* s = sum(x) and q = sum(x^2) the population variance is (n*q - s^2) / n^2
ExceedsThreshold(current, history, threshold) ==
    LET n == Len(history)
        s == SumSeq(history)
        q == SumSeq([i \in 1..n |-> history[i] * history[i]])
        nnvar == n * q - s * s
        dev == n * current - s
    IN  IF nnvar > 0
        THEN 100 * dev * dev > threshold * threshold * nnvar
        ELSE \* std = 0.001: abs(dev / n) hundredths > threshold tenths * 0.1
             100 * Abs(dev) > threshold * n

\* C5: with at least 5 historical values (and a positive threshold)
\* is_anomaly is true exactly when abs((current - mean) / std) exceeds
\* threshold_std, std being the population standard deviation of the history
\* or 0.001 when its variance is zero; a constant history divides by nothing,
\* and the history ten times 0.5 with current 0.9 and threshold 2.0 is an
\* anomaly.
C5_AnomalyIffThresholdExceeded ==
    (AnomalyReturned /\ Len(call.historical_values) >= 5 /\ call.threshold_std > 0) =>
        /\ ret.kind = "anomaly"
        /\ ret.is_anomaly = ExceedsThreshold(call.current_ndvi,
                                             call.historical_values,
                                             call.threshold_std)
        /\ (/\ call.historical_values = [i \in 1..10 |-> 50]
            /\ call.current_ndvi = 90
            /\ call.threshold_std = 20) => ret.is_anomaly

\* conf (tenths) is min(100, ratio * 50) to within half a tenth
WithinRounding(conf, ratio) ==
    /\ conf > 0 => CmpMag(ratio, 2 * conf - 1, 1000) >= 0
    /\ conf < 1000 => CmpMag(ratio, 2 * conf + 1, 1000) <= 0

AnomalyScored ==
    AnomalyReturned /\ Len(call.historical_values) >= 5 /\ call.threshold_std > 0

\* C6 as claimed: for a positive threshold the returned confidence is
\* min(100, abs(z)/threshold * 50) for the z-score computed, lies in [0,100], is above 50 whenever
\* is_anomaly is true and at most 50 whenever it is false.
C6_ConfidenceAbove50 ==
    AnomalyScored =>
        /\ 0 <= ret.confidence /\ ret.confidence <= 1000
        /\ WithinRounding(ret.confidence,
                          ZRatio(call.current_ndvi, call.historical_values,
                                 call.threshold_std))
        /\ ret.is_anomaly => ret.confidence > 500
        /\ ~ret.is_anomaly => ret.confidence <= 500

\* C6 as amended: for a positive threshold the returned confidence is
\* min(100, abs(z)/threshold * 50) for the z-score computed, rounded to one
\* decimal, lies in [0,100],
\* is at least 50 whenever is_anomaly is true and at most 50 whenever it is
\* false.
C6_ConfidenceAtLeast50 ==
    AnomalyScored =>
        /\ 0 <= ret.confidence /\ ret.confidence <= 1000
        /\ WithinRounding(ret.confidence,
                          ZRatio(call.current_ndvi, call.historical_values,
                                 call.threshold_std))
        /\ ret.is_anomaly => ret.confidence >= 500
        /\ ~ret.is_anomaly => ret.confidence <= 500

\* an anomaly whose confidence rounds to exactly 50.0
C6_Witness ==
    /\ AnomalyScored
    /\ ret.is_anomaly
    /\ ret.confidence = 500

\* ---------------------------------------------------------------------------
\* Crop stage (services/gee_advanced.py, detect_crop_stage).  NDVI values in
\* hundredths or Null (None); dates are never read.
\* ---------------------------------------------------------------------------

\* not ndvi_values or len(ndvi_values) < 3
TooShort_Two(ndvi_values) == Len(ndvi_values) < 2
TooShort(ndvi_values) == Len(ndvi_values) < 3

\* trend > 0
Rising_Strict(trend) == trend > 2
Rising(trend) == trend > 0

\* trend < 0
Falling_Steep(trend) == trend < -5

Falling(trend) == trend < 0

\* the if / elif chain on (current_ndvi, trend)
StageOf(current_ndvi, trend) ==
    IF current_ndvi < 20 THEN [stage |-> "Bare Soil / Fallow", stage_code |-> 0]
    ELSE IF current_ndvi < 30 /\ Rising(trend)
    THEN [stage |-> "Emergence", stage_code |-> 1]
    ELSE IF current_ndvi < 50 /\ Rising(trend)
    THEN [stage |-> "Vegetative Growth", stage_code |-> 2]
    ELSE IF current_ndvi >= 50 /\ Rising(trend)
    THEN [stage |-> "Active Growth", stage_code |-> 3]
    ELSE IF current_ndvi >= 60 /\ Abs(trend) < 5
    THEN [stage |-> "Peak / Flowering", stage_code |-> 4]
    ELSE IF current_ndvi >= 40 /\ Falling(trend)
    THEN [stage |-> "Grain Filling / Maturation", stage_code |-> 5]
    ELSE IF current_ndvi < 40 /\ Falling(trend)
    THEN [stage |-> "Senescence", stage_code |-> 6]
    ELSE IF current_ndvi < 25
    THEN [stage |-> "Harvest Ready", stage_code |-> 7]
    ELSE [stage |-> "Unknown", stage_code |-> -1]

detect_crop_stage(ndvi_values, dates) ==
    LET n == Len(ndvi_values)
    IN  IF TooShort(ndvi_values)
        THEN [kind |-> "stage", stage |-> "Unknown", confidence |-> 0]
        ELSE IF \E i \in 1..n : IsNull(ndvi_values[i])
        THEN \* max(ndvi_values) compares None with a float
             [kind |-> "TypeError"]
        ELSE LET current_ndvi == ndvi_values[n].v
                 max_ndvi == MaxSeq([i \in 1..n |-> ndvi_values[i].v])
                 trend == IF n >= 3 THEN ndvi_values[n].v - ndvi_values[n - 2].v
                          ELSE 0
                 rule == StageOf(current_ndvi, trend)
             IN  [kind |-> "stage",
                  stage |-> rule.stage,
                  stage_code |-> rule.stage_code,
                  current_ndvi |-> current_ndvi,
                  max_ndvi |-> max_ndvi,
                  trend |-> trend,
                  trend_direction |-> IF trend > 2 THEN "Increasing"
                                      ELSE IF trend < -2 THEN "Decreasing"
                                      ELSE "Stable"]

\* NDVI values of a series
SeriesValues ==
    {Null} \cup {Num(x) : x \in {15, 20, 22, 25, 30, 35, 40, 50, 60, 63, 70}}

MaxSeries == 4

InitStage ==
    /\ pc = "call"
    /\ ret = NoResult
    /\ ServiceLoaded
    /\ \E n \in 0..MaxSeries :
         \E ndvi_values \in [1..n -> SeriesValues] :
           \E dates \in {<<>>, [i \in 1..n |-> i]} :
             call = [op |-> "detect_crop_stage", ndvi_values |-> ndvi_values,
                     dates |-> dates]

DetectCropStage ==
    /\ pc = "call"
    /\ call.op = "detect_crop_stage"
    /\ ret' = detect_crop_stage(call.ndvi_values, call.dates)
    /\ pc' = "done"
    /\ UNCHANGED <<call, service>>

SpecStage == InitStage /\ [][DetectCropStage]_vars

StageReturned == pc = "done" /\ call.op = "detect_crop_stage"

\* C9: an empty NDVI list or one of fewer than 3 values gives stage
\* "Unknown" with confidence 0 whatever the values (None included) and the
\* dates are, and nothing else is computed.
C9_ShortSeriesUnknown ==
    (StageReturned /\ Len(call.ndvi_values) < 3) =>
        ret = [kind |-> "stage", stage |-> "Unknown", confidence |-> 0]

\* two values that the ladder would otherwise call bare soil, without dates
C9_Witness ==
    /\ StageReturned
    /\ call.ndvi_values = <<Num(15), Num(15)>>
    /\ call.dates = <<>>
    /\ ret.stage = "Unknown"
    /\ ret.confidence = 0

\* the rules of the ladder that (current, trend) satisfies; rising is
\* trend > 0, falling is trend < 0, flat is abs(trend) < 0.05
MatchingRules(current, trend) ==
    {r \in 0..7 :
        \/ r = 0 /\ current < 20
        \/ r = 1 /\ current < 30 /\ trend > 0
        \/ r = 2 /\ current < 50 /\ trend > 0
        \/ r = 3 /\ current >= 50 /\ trend > 0
        \/ r = 4 /\ current >= 60 /\ -5 < trend /\ trend < 5
        \/ r = 5 /\ current >= 40 /\ trend < 0
        \/ r = 6 /\ current < 40 /\ trend < 0
        \/ r = 7 /\ current < 25}

StageNames ==
    <<"Bare Soil / Fallow", "Emergence", "Vegetative Growth", "Active Growth",
      "Peak / Flowering", "Grain Filling / Maturation", "Senescence",
      "Harvest Ready">>

NumericSeries ==
    /\ Len(call.ndvi_values) >= 3
    /\ \A i \in 1..Len(call.ndvi_values) : ~IsNull(call.ndvi_values[i])

\* C10: for a series of at least 3 NDVI values, with current the last value
\* and trend the last value minus the value two steps back, the returned
\* stage is that of the first rule of the ordered ladder that matches
\* (rising: trend > 0, falling: trend < 0, flat: abs(trend) < 0.05).
C10_FirstMatchingRule ==
    (StageReturned /\ NumericSeries) =>
        LET n == Len(call.ndvi_values)
            current == call.ndvi_values[n].v
            trend == current - call.ndvi_values[n - 2].v
            rules == MatchingRules(current, trend)
        IN  /\ ret.kind = "stage"
            /\ ret.current_ndvi = current
            /\ ret.trend = trend
            /\ rules # {} =>
                 \E r \in rules :
                    /\ \A q \in rules : r <= q
                    /\ ret.stage_code = r
                    /\ ret.stage = StageNames[r + 1]

\* a slightly rising series above 0.6 matches active growth, peak/flowering
\* and no later rule first: the earlier rule wins
C10_Witness ==
    /\ StageReturned
    /\ call.ndvi_values = <<Num(60), Num(50), Num(63)>>
    /\ ret.stage = "Active Growth"
    /\ MatchingRules(63, 3) = {3, 4}

(***************************************************************************)
(* Sudden change detection (services/anomaly_detection.py).  A point of    *)
(* the time series is the entry it holds under index_key (hundredths, None *)
(* or no entry); its date is its position in the series.                   *)
(***************************************************************************)
\* abs(change) >= change_threshold
Significant_Strict(change, change_threshold) == Abs(change) > change_threshold

Significant(change, change_threshold) == Abs(change) >= change_threshold

\* round(change / prev * 100, 1) if prev != 0 else 0, in tenths of a percent
ChangePercent(change, prev) ==
    IF prev = 0 THEN 0
    ELSE IF prev > 0 THEN RoundDiv(1000 * change, prev)
    ELSE RoundDiv(0 - 1000 * change, 0 - prev)

\* the dict appended for step i (1-based position of the later point)
ChangeEvent(i, prev, curr) ==
    LET change == curr - prev
    IN  [date |-> i,
         previous_value |-> prev,
         current_value |-> curr,
         change |-> change,
         change_percent |-> ChangePercent(change, prev),
         type |-> IF change < 0 THEN "decline" ELSE "increase",
         severity |-> IF Abs(change) > 25 THEN "high" ELSE "moderate"]

\* the loop 'for i in range(1, len(time_series))' up to position k
RECURSIVE ChangesUpTo(_, _, _)
ChangesUpTo(values, change_threshold, k) ==
    IF k < 2 THEN <<>>
    ELSE LET before == ChangesUpTo(values, change_threshold, k - 1)
             prev == values[k - 1]
             curr == values[k]
         IN  IF Significant(curr - prev, change_threshold)
             THEN Append(before, ChangeEvent(k, prev, curr))
             ELSE before

detect_sudden_change(time_series, change_threshold) ==
    LET n == Len(time_series)
        \* time_series[i].get(index_key, 0)
        values == [i \in 1..n |-> IF time_series[i].tag = "absent" THEN 0
                                  ELSE time_series[i].v]
    IN  IF n < 2
        THEN [kind |-> "changes", changes_detected |-> <<>>,
              significant_change |-> FALSE]
        ELSE IF \E i \in 1..n : IsNull(time_series[i])
        THEN \* curr - prev with None
             [kind |-> "TypeError"]
        ELSE LET changes == ChangesUpTo(values, change_threshold, n)
             IN  [kind |-> "changes",
                  changes_detected |-> changes,
                  significant_change |-> Len(changes) > 0,
                  total_changes |-> Len(changes)]

\* entries of the points, hundredths
PointValues == Opt({-10, 0, 25, 30, 45, 71})

\* change_threshold, hundredths
ChangeThresholds == {0, 15, 25}

MaxPoints == 4

InitChange ==
    /\ pc = "call"
    /\ ret = NoResult
    /\ ServiceLoaded
    /\ \E n \in 0..MaxPoints :
         \E time_series \in [1..n -> PointValues], t \in ChangeThresholds :
            call = [op |-> "detect_sudden_change", time_series |-> time_series,
                    change_threshold |-> t]

DetectSuddenChange ==
    /\ pc = "call"
    /\ call.op = "detect_sudden_change"
    /\ ret' = detect_sudden_change(call.time_series, call.change_threshold)
    /\ pc' = "done"
    /\ UNCHANGED <<call, service>>

SpecChange == InitChange /\ [][DetectSuddenChange]_vars

\* detect_sudden_change has returned for a series whose points all hold a
\* number
ChangeReturned ==
    /\ pc = "done"
    /\ call.op = "detect_sudden_change"
    /\ \A i \in 1..Len(call.time_series) : call.time_series[i].tag = "num"

\* C11: over a series of n points there is one event for exactly the steps
\* whose absolute delta reaches change_threshold, in series order; an event
\* is "high" when the absolute delta is above 0.25 and "moderate" otherwise,
\* its change_percent is delta/previous*100 (to one decimal) or 0 when the
\* previous value is 0; significant_change holds exactly when there is an
\* event, and fewer than 2 points give no event.
C11_EventsAreTheLargeSteps ==
    ChangeReturned =>
        LET n == Len(call.time_series)
            val(i) == call.time_series[i].v
            steps == {i \in 2..n :
                        \/ val(i) - val(i - 1) >= call.change_threshold
                        \/ val(i - 1) - val(i) >= call.change_threshold}
            events == ret.changes_detected
        IN  /\ ret.kind = "changes"
            /\ Len(events) = Cardinality(steps)
            /\ {events[k].date : k \in 1..Len(events)} = steps
            /\ \A k \in 1..Len(events) - 1 : events[k].date < events[k + 1].date
            /\ \A k \in 1..Len(events) :
                 LET i == events[k].date
                     delta == val(i) - val(i - 1)
                     previous == val(i - 1)
                 IN  /\ events[k].severity =
                            IF delta > 25 \/ delta < -25 THEN "high" ELSE "moderate"
                     /\ previous = 0 => events[k].change_percent = 0
                     /\ previous # 0 =>
                            2 * Abs(events[k].change_percent * previous - 1000 * delta)
                                <= Abs(previous)
            /\ ret.significant_change = (steps # {})
            /\ n < 2 => events = <<>>

\* a step from 0 that just reaches the threshold, a small step, and a step
\* above 0.25
C11_Witness ==
    /\ pc = "done"
    /\ call.op = "detect_sudden_change"
    /\ call.time_series = <<Num(0), Num(25), Num(30), Num(71)>>
    /\ call.change_threshold = 25
    /\ Len(ret.changes_detected) = 2
    /\ ret.changes_detected[1].change_percent = 0
    /\ ret.changes_detected[1].severity = "moderate"
    /\ ret.changes_detected[2].severity = "high"

(***************************************************************************)
(* Land use / land cover change (services/anomaly_detection.py).  A        *)
(* classification is a function from some class names to percentages, in   *)
(* units of 0.0001 percent.  The loop runs over a Python set of strings,    *)
(* whose order differs from run to run: the order is an input of the model. *)
(***************************************************************************)
\* classification.get(lulc_class, 0)
Percent(classification, lulc_class) ==
    IF lulc_class \in DOMAIN classification THEN classification[lulc_class] ELSE 0

\* set(current_classification.keys()) | set(previous_classification.keys())
AllClasses_CurrentOnly(current_classification, previous_classification) ==
    DOMAIN current_classification

AllClasses(current_classification, previous_classification) ==
    DOMAIN current_classification \cup DOMAIN previous_classification

\* cropland_change < -5 and urban_change > 5
UrbanConversion_Inclusive(cropland_change, urban_change) ==
    cropland_change <= -50000 /\ urban_change >= 50000

UrbanConversion(cropland_change, urban_change) ==
    cropland_change < -50000 /\ urban_change > 50000

\* the orders in which a set can be iterated
Orders(S) ==
    {o \in [1..Cardinality(S) -> S] :
        \A i, j \in 1..Cardinality(S) : i # j => o[i] # o[j]}

\* the items of s that are in keep, in the order of s
RECURSIVE Filter(_, _)
Filter(s, keep) ==
    IF s = <<>> THEN <<>>
    ELSE IF Head(s) \in keep THEN <<Head(s)>> \o Filter(Tail(s), keep)
    ELSE Filter(Tail(s), keep)

\* detect_lulc_change(current_classification, previous_classification,
\* min_change_percent), the set all_classes being iterated in the given order
detect_lulc_change(current_classification, previous_classification, min_change_percent, order) ==
    LET change(c) == Percent(current_classification, c)
                       - Percent(previous_classification, c)
        flagged == Filter(order, {c \in DOMAIN current_classification
                                          \cup DOMAIN previous_classification :
                                     Abs(change(c)) >= min_change_percent})
        changes == [i \in 1..Len(flagged) |->
                      [class |-> flagged[i],
                       previous_percent |-> Percent(previous_classification, flagged[i]),
                       current_percent |-> Percent(current_classification, flagged[i]),
                       \* round(change, 1), tenths of a percent
                       change |-> RoundDiv(change(flagged[i]), 1000),
                       trend |-> IF change(flagged[i]) > 0 THEN "increasing"
                                 ELSE "decreasing"]]
        cropland_change == change("cropland")
        urban_change == change("urban")
        forest_change == change("forest")
        patterns ==
            (IF UrbanConversion(cropland_change, urban_change)
             THEN <<"agricultural_to_urban_conversion">> ELSE <<>>)
            \o (IF forest_change < -50000 /\ cropland_change > 50000
                THEN <<"deforestation_for_agriculture">> ELSE <<>>)
            \o (IF cropland_change < -100000
                THEN <<"significant_cropland_loss">> ELSE <<>>)
    IN  [kind |-> "lulc",
         changes |-> changes,
         patterns_detected |-> patterns,
         has_significant_change |-> Len(changes) > 0,
         \* the number that the summary string quotes
         analysis_summary |-> Len(changes)]

\* a classification entry that may be missing
NoEntry == -1

\* (previous, current) percentages of each class
CroplandPairs ==
    {NoEntry, 49000, 50000, 50001, 100000, 100001} \X {NoEntry, 0, 100001}

UrbanPairs == {NoEntry, 0} \X {NoEntry, 49000, 50000, 50001}

ForestPairs == {NoEntry, 49000, 50000, 50001} \X {NoEntry, 0}

WaterPairs == {<<NoEntry, NoEntry>>, <<NoEntry, 50000>>, <<0, NoEntry>>}

MinChangePercents == {0, 50000, 100001}

LulcClasses == {"cropland", "urban", "forest", "water"}

\* the classification holding the entries of e other than NoEntry
Classification(e) == [c \in {k \in DOMAIN e : e[k] # NoEntry} |-> e[c]]

InitLulc ==
    /\ pc = "call"
    /\ ret = NoResult
    /\ ServiceLoaded
    /\ \E cr \in CroplandPairs, ur \in UrbanPairs, fo \in ForestPairs,
          wa \in WaterPairs, m \in MinChangePercents :
         LET pairs == [c \in LulcClasses |->
                          IF c = "cropland" THEN cr ELSE IF c = "urban" THEN ur
                          ELSE IF c = "forest" THEN fo ELSE wa]
         IN  call = [op |-> "detect_lulc_change",
                     previous_classification |->
                         Classification([c \in LulcClasses |-> pairs[c][1]]),
                     current_classification |->
                         Classification([c \in LulcClasses |-> pairs[c][2]]),
                     min_change_percent |-> m]

DetectLulcChange ==
    /\ pc = "call"
    /\ call.op = "detect_lulc_change"
    /\ \E order \in Orders(AllClasses(call.current_classification,
                                      call.previous_classification)) :
         ret' = detect_lulc_change(call.current_classification,
                                   call.previous_classification,
                                   call.min_change_percent, order)
    /\ pc' = "done"
    /\ UNCHANGED <<call, service>>

SpecLulc == InitLulc /\ [][DetectLulcChange]_vars

LulcReturned == pc = "done" /\ call.op = "detect_lulc_change"

\* current minus previous percentage of a class in the call, a class missing
\* from a map counting as 0 there
ClassChange(c) ==
    (IF c \in DOMAIN call.current_classification
     THEN call.current_classification[c] ELSE 0)
    - (IF c \in DOMAIN call.previous_classification
       THEN call.previous_classification[c] ELSE 0)

PatternSet == {ret.patterns_detected[i] : i \in 1..Len(ret.patterns_detected)}

\* C12: "agricultural_to_urban_conversion" is reported exactly when the
\* cropland change is strictly below -5 and the urban change strictly above
\* 5, "deforestation_for_agriculture" exactly when the forest change is below
\* -5 and the cropland change above 5, "significant_cropland_loss" exactly
\* when the cropland change is below -10, whatever min_change_percent is.
C12_PatternThresholds ==
    LulcReturned =>
        /\ ret.kind = "lulc"
        /\ Len(ret.patterns_detected) = Cardinality(PatternSet)
        /\ ("agricultural_to_urban_conversion" \in PatternSet)
              = (ClassChange("cropland") < -50000 /\ ClassChange("urban") > 50000)
        /\ ("deforestation_for_agriculture" \in PatternSet)
              = (ClassChange("forest") < -50000 /\ ClassChange("cropland") > 50000)
        /\ ("significant_cropland_loss" \in PatternSet)
              = (ClassChange("cropland") < -100000)
        /\ PatternSet \subseteq {"agricultural_to_urban_conversion",
                                 "deforestation_for_agriculture",
                                 "significant_cropland_loss"}

\* cropland -5.0001 and urban +5.0001 with a min_change_percent above both:
\* the pattern is reported although no class is flagged
C12_Witness ==
    /\ LulcReturned
    /\ ClassChange("cropland") = -50001
    /\ ClassChange("urban") = 50001
    /\ call.min_change_percent = 100001
    /\ ret.patterns_detected = <<"agricultural_to_urban_conversion">>
    /\ ret.changes = <<>>

\* C13: every class of either map is considered, a class missing from one
\* map counting as 0 percent there; a class is in the change list (once)
\* exactly when the size of its change reaches min_change_percent, and
\* has_significant_change holds exactly when some class is flagged.
C13_FlaggedClasses ==
    LulcReturned =>
        LET classes == DOMAIN call.current_classification
                         \cup DOMAIN call.previous_classification
            reached == {c \in classes :
                          \/ ClassChange(c) >= call.min_change_percent
                          \/ 0 - ClassChange(c) >= call.min_change_percent}
            listed == {ret.changes[i].class : i \in 1..Len(ret.changes)}
        IN  /\ listed = reached
            /\ Len(ret.changes) = Cardinality(reached)
            /\ \A i \in 1..Len(ret.changes) :
                 ret.changes[i].current_percent - ret.changes[i].previous_percent
                    = ClassChange(ret.changes[i].class)
            /\ ret.has_significant_change = (reached # {})

\* forest appears only in the previous map and urban only in the current
\* one: each is flagged from its change against 0
C13_Witness ==
    /\ LulcReturned
    /\ "urban" \in DOMAIN call.current_classification
    /\ "urban" \notin DOMAIN call.previous_classification
    /\ "forest" \in DOMAIN call.previous_classification
    /\ "forest" \notin DOMAIN call.current_classification
    /\ call.min_change_percent = 50000
    /\ \E i, j \in 1..Len(ret.changes) :
          /\ ret.changes[i].class = "urban"
          /\ ret.changes[i].previous_percent = 0
          /\ ret.changes[j].class = "forest"
          /\ ret.changes[j].current_percent = 0
    /\ ret.has_significant_change

(***************************************************************************)
(* Carbon sequestration (services/anomaly_detection.py).  NDVI in          *)
(* hundredths, LAI and area_ha in tenths, rates in tenths of tC/ha/year;   *)
(* results in the units of their rounding: the daily rate in 0.0001, the   *)
(* annual, CO2 and credit figures and health_factor in hundredths.         *)
(***************************************************************************)
\* crop_carbon_rates, tenths
crop_carbon_rates ==
    [wheat |-> 35, rice |-> 40, maize |-> 60, cotton |-> 25, sugarcane |-> 80,
     potato |-> 30, soybean |-> 35, mustard |-> 25]

\* the growth stage factor, tenths
growth_factor_Inclusive(days_since_sowing) ==
    IF days_since_sowing <= 30 THEN 3
    ELSE IF days_since_sowing <= 60 THEN 7
    ELSE IF days_since_sowing <= 90 THEN 10
    ELSE IF days_since_sowing <= 120 THEN 8
    ELSE 5

growth_factor(days_since_sowing) ==
    IF days_since_sowing < 30 THEN 3
    ELSE IF days_since_sowing < 60 THEN 7
    ELSE IF days_since_sowing < 90 THEN 10
    ELSE IF days_since_sowing < 120 THEN 8
    ELSE 5

\* total_annual = annual_sequestration_per_ha * area_ha with
\* annual_sequestration_per_ha = base_rate * 0.8, in thousandths
total_annual_PerHa(base_rate, area_ha) == base_rate * 8 * 10

total_annual(base_rate, area_ha) == base_rate * 8 * area_ha

estimate_carbon_sequestration(ndvi, lai, area_ha, crop_type, days_since_sowing) ==
    LET base_rate == IF crop_type \in DOMAIN crop_carbon_rates
                     THEN crop_carbon_rates[crop_type] ELSE 35
        \* health_factor = (ndvi + 1) / 2 is (ndvi + 100) / 200
        \* canopy_factor = min(1.0, lai / 4.0) is Min(40, lai) / 40
        \* current_rate / 365 in 0.0001:
        \*   base_rate/10 * (ndvi+100)/200 * Min(40,lai)/40 * growth/10 / 365 * 10000
        current == base_rate * (ndvi + 100) * Min(40, lai)
                     * growth_factor(days_since_sowing)
        total == total_annual(base_rate, area_ha)
    IN  [kind |-> "carbon",
         current_rate_tc_ha_day |-> RoundDiv(current, 29200),
         annual_estimate_tc_ha |-> base_rate * 8,
         total_annual_tc |-> RoundDiv(total, 10),
         \* co2_equivalent = total_annual * 3.67
         co2_equivalent_t |-> RoundDiv(total * 367, 1000),
         \* credit_value = co2_equivalent * 25
         potential_credit_value_usd |-> RoundDiv(total * 367, 40),
         health_factor |-> RoundDiv(ndvi + 100, 2),
         confidence |-> "medium"]

CarbonNdvi == {-100, -20, 0, 50, 100}

CarbonLai == {-10, 0, 20, 40, 60}

CarbonArea == {0, 5, 10, 25, 1000}

CarbonDays == {0, 29, 30, 59, 60, 89, 90, 119, 120, 150}

InitCarbon ==
    /\ pc = "call"
    /\ ret = NoResult
    /\ ServiceLoaded
    /\ \E n \in CarbonNdvi, l \in CarbonLai, a \in CarbonArea, c \in CropInputs,
          d \in CarbonDays :
            call = [op |-> "estimate_carbon_sequestration", ndvi |-> n, lai |-> l,
                    area_ha |-> a, crop_type |-> c, days_since_sowing |-> d]

EstimateCarbonSequestration ==
    /\ pc = "call"
    /\ call.op = "estimate_carbon_sequestration"
    /\ ret' = estimate_carbon_sequestration(call.ndvi, call.lai, call.area_ha,
                                            call.crop_type, call.days_since_sowing)
    /\ pc' = "done"
    /\ UNCHANGED <<call, service>>

SpecCarbon == InitCarbon /\ [][EstimateCarbonSequestration]_vars

CarbonReturned == pc = "done" /\ call.op = "estimate_carbon_sequestration"

\* the base rate of the crop of the call, tenths
CallBaseRate ==
    IF call.crop_type \in DOMAIN crop_carbon_rates
    THEN crop_carbon_rates[call.crop_type] ELSE 35

\* the steps of the growth curve: <<first day beyond the step, factor>>
GrowthSteps == {<<30, 3>>, <<60, 7>>, <<90, 10>>, <<120, 8>>}

\* C15: the current daily rate is base_rate * (NDVI+1)/2 * min(1, LAI/4) *
\* growth_factor / 365 (to four decimals), growth_factor being 0.3 below day
\* 30, 0.7 below 60, 1.0 below 90, 0.8 below 120 and 0.5 from day 120 on, so
\* that each boundary day falls into the later step.
C15_CurrentDailyRate ==
    CarbonReturned =>
        LET open == {st \in GrowthSteps : call.days_since_sowing < st[1]}
            g == IF open = {} THEN 5
                 ELSE (CHOOSE st \in open : \A o \in open : st[1] <= o[1])[2]
            canopy == IF call.lai > 40 THEN 40 ELSE call.lai
            exact == CallBaseRate * (call.ndvi + 100) * canopy * g
        IN  2 * Abs(ret.current_rate_tc_ha_day * 29200 - exact) <= 29200

\* a boundary day with a full canopy: day 90 takes the factor 0.8, and
\* 6.0 * 0.75 * 1 * 0.8 / 365 = 0.0099
C15_Witness ==
    /\ CarbonReturned
    /\ call.days_since_sowing = 90
    /\ call.crop_type = "maize"
    /\ call.ndvi = 50
    /\ call.lai = 60
    /\ ret.current_rate_tc_ha_day = 99

\* C16: annual_per_ha = base_rate * 0.8, total_annual = annual_per_ha * area,
\* CO2-equivalent = total_annual * 3.67 and credit value = CO2-equivalent * 25
\* (each to two decimals), so that calls differing only in NDVI, LAI or
\* days_since_sowing return the same annual, CO2 and credit figures.
C16_AnnualChain ==
    CarbonReturned =>
        LET annual == CallBaseRate * 8
            total == annual * call.area_ha
        IN  /\ ret.annual_estimate_tc_ha = annual
            /\ 2 * Abs(ret.total_annual_tc * 10 - total) <= 10
            /\ 2 * Abs(ret.co2_equivalent_t * 1000 - total * 367) <= 1000
            /\ 2 * Abs(ret.potential_credit_value_usd * 40 - total * 367) <= 40
            /\ \A n \in CarbonNdvi, l \in CarbonLai, d \in CarbonDays :
                 LET other == estimate_carbon_sequestration(n, l, call.area_ha,
                                                            call.crop_type, d)
                 IN  /\ other.annual_estimate_tc_ha = ret.annual_estimate_tc_ha
                     /\ other.total_annual_tc = ret.total_annual_tc
                     /\ other.co2_equivalent_t = ret.co2_equivalent_t
                     /\ other.potential_credit_value_usd = ret.potential_credit_value_usd

\* sugarcane on 2.5 ha with no canopy at all: the daily rate is 0 while the
\* annual chain gives 6.4, 16.0, 58.72 and 1468.0
C16_Witness ==
    /\ CarbonReturned
    /\ call.crop_type = "sugarcane"
    /\ call.area_ha = 25
    /\ call.lai = 0
    /\ ret.current_rate_tc_ha_day = 0
    /\ ret.annual_estimate_tc_ha = 640
    /\ ret.total_annual_tc = 1600
    /\ ret.co2_equivalent_t = 5872
    /\ ret.potential_credit_value_usd = 146800

(***************************************************************************)
(* Risk assessment (routers/advanced_analysis.py, get_risk_assessment).    *)
(* The handler draws a base level and a noise per factor with              *)
(* random.uniform; both are in tenths, as are the levels and overall_risk. *)
(* The timestamps of the result are left out.                              *)
(***************************************************************************)
\* the keys of the factors dict, in insertion order
FactorOrder == <<"drought", "flood", "pest", "disease", "frost", "heatwave">>

\* the weights zipped with factors.values(), in twentieths
RiskWeights_Uneven == <<5, 3, 4, 4, 2, 3>>

RiskWeights == <<5, 3, 4, 4, 2, 2>>

\* factor["status"] in ["high", "critical"]
Alerting_CriticalOnly(status) == status = "critical"

Alerting(status) == status \in {"high", "critical"}

\* the alerts of the factors order[k..], in order
RECURSIVE AlertsFrom(_, _)
AlertsFrom(factors, k) ==
    IF k > Len(FactorOrder) THEN <<>>
    ELSE LET name == FactorOrder[k]
             factor == factors[name]
         IN  (IF Alerting(factor.status)
              THEN <<[type |-> name,
                      severity |-> IF factor.status = "critical" THEN "critical"
                                   ELSE "warning",
                      factor_status |-> factor.status]>>
              ELSE <<>>)
             \o AlertsFrom(factors, k + 1)

\* get_risk_assessment(farm_id) when random.uniform returns base[name] for
\* the base level of a factor and noise[name] inside make_factor
get_risk_assessment(farm_id, base, noise) ==
    LET factors == [name \in RiskFactorNames |->
                       make_factor(name, base[name], noise[name])]
        \* sum(f["level"] * w ...), in tenths times twentieths
        overall == SumSeq([i \in 1..Len(FactorOrder) |->
                              factors[FactorOrder[i]].level * RiskWeights[i]])
        risk_status == IF overall < 25 * 200 THEN "low"
                       ELSE IF overall < 50 * 200 THEN "moderate"
                       ELSE IF overall < 75 * 200 THEN "high"
                       ELSE "critical"
    IN  [kind |-> "risk",
         farm_id |-> farm_id,
         overall_risk |-> RoundDiv(overall, 20),
         risk_status |-> risk_status,
         factors |-> factors,
         alerts |-> AlertsFrom(factors, 1)]

\* values of random.uniform(lo, hi) for the base level of each factor: the
\* two ends of its range, or a level all six ranges share
RiskBases ==
    [drought |-> {300, 600}, flood |-> {300, 400}, pest |-> {150, 300},
     disease |-> {300, 550}, frost |-> {50, 300}, heatwave |-> {300, 650}]

\* values of random.uniform(-10, 10)
RiskNoise == {-100, 0, 100}

FarmIds == {"farm-1", "farm-2"}

InitRisk ==
    /\ pc = "call"
    /\ ret = NoResult
    /\ ServiceLoaded
    /\ \E f \in FarmIds : call = [op |-> "get_risk_assessment", farm_id |-> f]

GetRiskAssessment ==
    /\ pc = "call"
    /\ call.op = "get_risk_assessment"
    /\ \E dr \in RiskBases.drought, fl \in RiskBases.flood, pe \in RiskBases.pest,
          di \in RiskBases.disease, fr \in RiskBases.frost,
          he \in RiskBases.heatwave, noise \in [RiskFactorNames -> RiskNoise] :
         ret' = get_risk_assessment(call.farm_id,
                    [drought |-> dr, flood |-> fl, pest |-> pe, disease |-> di,
                     frost |-> fr, heatwave |-> he],
                    noise)
    /\ pc' = "done"
    /\ UNCHANGED <<call, service>>

SpecRisk == InitRisk /\ [][GetRiskAssessment]_vars

RiskReturned == pc = "done" /\ call.op = "get_risk_assessment"

\* the levels of the returned factors
RiskLevels == {ret.factors[n].level : n \in RiskFactorNames}

\* C17: the overall risk is the weighted sum of the levels of drought, flood,
\* pest, disease, frost and heatwave with the weights 0.25, 0.15, 0.20, 0.20,
\* 0.10 and 0.10, which sum to 1 (to one decimal); it lies in [0,100] and
\* between the smallest and the largest factor level, so that equal levels
\* give that level as the overall risk.
C17_OverallIsWeightedSum ==
    RiskReturned =>
        LET l == [n \in RiskFactorNames |-> ret.factors[n].level]
            weighted == 25 * l["drought"] + 15 * l["flood"] + 20 * l["pest"]
                          + 20 * l["disease"] + 10 * l["frost"] + 10 * l["heatwave"]
        IN  /\ 25 + 15 + 20 + 20 + 10 + 10 = 100
            /\ 2 * Abs(100 * ret.overall_risk - weighted) <= 100
            /\ 0 <= ret.overall_risk /\ ret.overall_risk <= 1000
            /\ \A n \in RiskFactorNames : 0 <= l[n] /\ l[n] <= 1000
            /\ \E lo, hi \in RiskLevels :
                  lo <= ret.overall_risk /\ ret.overall_risk <= hi
            /\ \A x \in RiskLevels : RiskLevels = {x} => ret.overall_risk = x

\* all six factors at the same level
C17_Witness ==
    /\ RiskReturned
    /\ RiskLevels = {300}
    /\ ret.overall_risk = 300

\* C18: there is exactly one alert for every factor whose status is "high"
\* or "critical" and none for a factor whose status is "low" or "moderate";
\* the alert of a critical factor has severity "critical", that of a high
\* factor "warning"; the overall risk status plays no part.
C18_AlertsFollowFactorStatus ==
    RiskReturned =>
        /\ \A n \in RiskFactorNames :
             LET mine == {i \in 1..Len(ret.alerts) : ret.alerts[i].type = n}
                 status == ret.factors[n].status
             IN  /\ status \in {"high", "critical"} => Cardinality(mine) = 1
                 /\ status \in {"low", "moderate"} => mine = {}
                 /\ \A i \in mine :
                      ret.alerts[i].severity =
                          IF status = "critical" THEN "critical" ELSE "warning"
        /\ \A i \in 1..Len(ret.alerts) : ret.alerts[i].type \in RiskFactorNames

\* a critical and a high factor raise their alerts although the overall risk
\* status is only "moderate"
C18_Witness ==
    /\ RiskReturned
    /\ ret.risk_status = "moderate"
    /\ ret.factors["heatwave"].status = "critical"
    /\ ret.factors["drought"].status = "high"
    /\ ret.factors["frost"].status = "low"
    /\ \E i, j \in 1..Len(ret.alerts) :
          /\ ret.alerts[i].type = "heatwave" /\ ret.alerts[i].severity = "critical"
          /\ ret.alerts[j].type = "drought" /\ ret.alerts[j].severity = "warning"
    /\ \A i \in 1..Len(ret.alerts) : ret.alerts[i].type # "frost"

(***************************************************************************)
(* Index histograms (services/gee_advanced.py and services/gee_agri.py).   *)
(* The provider's reduceRegion(...).getInfo() answers with a dict that     *)
(* holds, under the index, the lists bucketMeans and histogram: here       *)
(* Absent (no entry), Null (None, a region without pixels) or a record of  *)
(* the two lists.  A percentage is a fraction [num, den].                  *)
(***************************************************************************)
\* 'percentage': round(count / total * 100, 2), gee_advanced
Percentage(count, total) == [num |-> RoundDiv(10000 * count, total), den |-> 100]

\* gee_advanced.calculate_index_histogram, from the provider's answer on
calculate_index_histogram(histogram) ==
    IF IsNull(histogram)
    THEN \* hist_data.get on None
         [kind |-> "AttributeError"]
    ELSE LET bucket_means == IF histogram.tag = "absent" THEN <<>>
                             ELSE histogram.bucketMeans
             counts == IF histogram.tag = "absent" THEN <<>>
                       ELSE histogram.histogram
             total == IF counts # <<>> THEN SumSeq(counts) ELSE 1
             \* zip stops at the shorter list
             n == Min(Len(bucket_means), Len(counts))
         IN  IF n > 0 /\ total = 0
             THEN [kind |-> "ZeroDivisionError"]
             ELSE [kind |-> "histogram",
                   bins |-> [i \in 1..n |->
                               [value |-> bucket_means[i],
                                count |-> counts[i],
                                percentage |-> Percentage(counts[i], total)]]]

\* gee_agri.calculate_index_histogram, from the provider's answer on; the
\* bin limits mean -/+ bucket_width / 2 are left out
agri_calculate_index_histogram(histogram) ==
    IF IsNull(histogram)
    THEN [kind |-> "AttributeError"]
    ELSE LET bucket_means == IF histogram.tag = "absent" THEN <<>>
                             ELSE histogram.bucketMeans
             bucket_counts == IF histogram.tag = "absent" THEN <<>>
                              ELSE histogram.histogram
             total_count == IF bucket_counts # <<>> THEN SumSeq(bucket_counts)
                            ELSE 1
             n == Min(Len(bucket_means), Len(bucket_counts))
         IN  [kind |-> "histogram",
              bins |-> [i \in 1..n |->
                          [value |-> bucket_means[i],
                           count |-> bucket_counts[i],
                           \* (count / total_count) * 100 if total_count > 0 else 0
                           percentage |-> IF total_count > 0
                                          THEN [num |-> 100 * bucket_counts[i],
                                                den |-> total_count]
                                          ELSE [num |-> 0, den |-> 1]]]]

\* the provider's answer for the given bucket counts
Buckets(counts) ==
    [tag |-> "buckets", bucketMeans |-> [i \in 1..Len(counts) |-> i],
     histogram |-> counts]

\* counts of a bucket in the short answers
BucketCounts == {0, 1, 2, 7}

\* most buckets of an answer drawn count by count
MaxBins == 3

\* most buckets of an answer with the same count in every bucket
MaxUniform == 130

HistogramAnswers ==
    {Absent, Null}
    \cup {Buckets(c) : c \in UNION {[1..n -> BucketCounts] : n \in 0..MaxBins}}
    \cup {Buckets([i \in 1..n |-> c]) : n \in 1..MaxUniform, c \in {1, 3}}

InitHistogram ==
    /\ pc = "call"
    /\ ret = NoResult
    /\ ServiceLoaded
    /\ \E h \in HistogramAnswers,
          op \in {"calculate_index_histogram", "agri_calculate_index_histogram"} :
         call = [op |-> op, histogram |-> h]

CalculateIndexHistogram ==
    /\ pc = "call"
    /\ call.op = "calculate_index_histogram"
    /\ ret' = calculate_index_histogram(call.histogram)
    /\ pc' = "done"
    /\ UNCHANGED <<call, service>>

AgriCalculateIndexHistogram ==
    /\ pc = "call"
    /\ call.op = "agri_calculate_index_histogram"
    /\ ret' = agri_calculate_index_histogram(call.histogram)
    /\ pc' = "done"
    /\ UNCHANGED <<call, service>>

NextHistogram == CalculateIndexHistogram \/ AgriCalculateIndexHistogram

SpecHistogram == InitHistogram /\ [][NextHistogram]_vars

\* a histogram function has returned for buckets of a non-empty sample
HistogramReturned ==
    /\ pc = "done"
    /\ call.op \in {"calculate_index_histogram", "agri_calculate_index_histogram"}
    /\ call.histogram.tag = "buckets"
    /\ SumSeq(call.histogram.histogram) > 0

\* C19: for any bucket data of a non-empty sample the returned bins hold
\* every bucket, their counts sum to the total sample count and their
\* percentages sum to within 0.5 of 100.
C19_HistogramTotals ==
    HistogramReturned =>
        LET total == SumSeq(call.histogram.histogram)
        IN  /\ ret.kind = "histogram"
            /\ Len(ret.bins) = Len(call.histogram.histogram)
            /\ SumSeq([i \in DOMAIN ret.bins |-> ret.bins[i].count]) = total
            /\ \A i \in DOMAIN ret.bins : ret.bins[i].count = call.histogram.histogram[i]
            /\ LET den == ret.bins[1].percentage.den
                   nums == SumSeq([i \in DOMAIN ret.bins |-> ret.bins[i].percentage.num])
               IN  /\ \A i \in DOMAIN ret.bins : ret.bins[i].percentage.den = den
                   /\ 2 * Abs(nums - 100 * den) <= den

(***************************************************************************)
(* NDVI (services/gee_advanced.py and services/gee_agri.py).  A pixel is   *)
(* a record of its Sentinel-2 band numbers B4 (red) and B8 (near infrared), *)
(* that is, reflectances in ten-thousandths; an index value is a fraction  *)
(* [num, den].  The imagery provider evaluates the band arithmetic; what   *)
(* it yields for a zero denominator is its own matter ("masked" here).     *)
(***************************************************************************)
\* image.normalizedDifference([a, b])
normalizedDifference(a, b) ==
    IF a + b = 0 THEN [kind |-> "masked"]
    ELSE [kind |-> "index", num |-> a - b, den |-> a + b]

\* gee_agri._calculate_ndvi(image)
calculate_ndvi_Swapped(image) == normalizedDifference(image.B4, image.B8)

calculate_ndvi(image) == normalizedDifference(image.B8, image.B4)

\* the NDVI band of gee_advanced.calculate_all_indices(image):
\*   red = image.select('B4').divide(10000), nir = image.select('B8').divide(10000)
\*   ndvi = nir.subtract(red).divide(nir.add(red))
\* red and nir are kept in ten-thousandths, the unit of the band numbers
calculate_all_indices(image) ==
    LET red == image.B4
        nir == image.B8
    IN  IF nir + red = 0 THEN [kind |-> "masked"]
        ELSE [kind |-> "index", num |-> nir - red, den |-> nir + red]

\* band numbers of a pixel; above 10000 for very bright surfaces
BandValues == {0, 1, 500, 2500, 3000, 5000, 9999, 10000, 12000}

InitNdvi ==
    /\ pc = "call"
    /\ ret = NoResult
    /\ ServiceLoaded
    /\ \E r \in BandValues, n \in BandValues,
          op \in {"calculate_all_indices", "calculate_ndvi"} :
         call = [op |-> op, image |-> [B4 |-> r, B8 |-> n]]

CalculateAllIndices ==
    /\ pc = "call"
    /\ call.op = "calculate_all_indices"
    /\ ret' = calculate_all_indices(call.image)
    /\ pc' = "done"
    /\ UNCHANGED <<call, service>>

CalculateNdvi ==
    /\ pc = "call"
    /\ call.op = "calculate_ndvi"
    /\ ret' = calculate_ndvi(call.image)
    /\ pc' = "done"
    /\ UNCHANGED <<call, service>>

NextNdvi == CalculateAllIndices \/ CalculateNdvi

SpecNdvi == InitNdvi /\ [][NextNdvi]_vars

\* an NDVI has been computed for red and nir in [0,1] with red + nir > 0
NdviReturned ==
    /\ pc = "done"
    /\ call.op \in {"calculate_all_indices", "calculate_ndvi"}
    /\ 0 <= call.image.B4 /\ call.image.B4 <= 10000
    /\ 0 <= call.image.B8 /\ call.image.B8 <= 10000
    /\ call.image.B4 + call.image.B8 > 0

\* C20: for red and nir in [0,1] with red + nir > 0 the NDVI computed by
\* either service is (nir - red) / (nir + red) and lies in [-1,1].
C20_NdviFormulaAndRange ==
    NdviReturned =>
        LET red == call.image.B4
            nir == call.image.B8
        IN  /\ ret.kind = "index"
            /\ ret.den > 0
            /\ ret.num * (nir + red) = (nir - red) * ret.den
            /\ 0 - ret.den <= ret.num /\ ret.num <= ret.den

\* a pixel without any red reflectance: NDVI is exactly 1, the upper end
C20_Witness ==
    /\ NdviReturned
    /\ call.op = "calculate_ndvi"
    /\ call.image.B4 = 0
    /\ call.image.B8 = 2500
    /\ ret.num = ret.den

(***************************************************************************)
(* Crop-parameter resolution of the yield estimators                       *)
(***************************************************************************)
\* the crop whose table entry a crop-type string should resolve to
ResolvedCrop(crop_type) ==
    IF Lower(crop_type) \in DOMAIN YieldParams THEN Lower(crop_type) ELSE "wheat"

\* C21: crop-parameter resolution is case-insensitive and total: a yield
\* estimator called with any crop-type string returns, without an error, the
\* estimate of the lower-cased name when the table holds it and that of
\* wheat otherwise.
C21_CropLookupIgnoresCase ==
    /\ (pc = "done" /\ call.op = "estimate_yield") =>
          LET same == estimate_yield(ResolvedCrop(call.crop_type), call.ndvi_max,
                                     call.evi_mean, call.lai_mean)
          IN  /\ ret.kind = "yield"
              /\ ret.estimated_yield_tha = same.estimated_yield_tha
              /\ ret.yield_min = same.yield_min
              /\ ret.yield_max = same.yield_max
    /\ (pc = "done" /\ call.op = "generate_mock_yield" /\ NoNullIn(call.indices)) =>
          LET same == generate_mock_yield(call.indices, ResolvedCrop(call.crop_type))
          IN  /\ ret.kind = "yield"
              /\ ret.estimated_yield_tha = same.estimated_yield_tha
              /\ ret.yield_min = same.yield_min
              /\ ret.yield_max = same.yield_max

(***************************************************************************)
(* Sudden change detection over dated points.  A point is a dict with a    *)
(* "date" (a day number) and the entry under index_key; the event of a     *)
(* step carries the date of its later point.                               *)
(***************************************************************************)
\* "date": time_series[i].get("date")
DatedEvents(changes, dates) ==
    [k \in 1..Len(changes) |-> [changes[k] EXCEPT !.date = dates[changes[k].date]]]

detect_sudden_change_dated(dates, values, change_threshold) ==
    LET result == detect_sudden_change(values, change_threshold)
    IN  IF result.kind = "changes"
        THEN [result EXCEPT !.changes_detected = DatedEvents(@, dates)]
        ELSE result

\* the days a point may carry
Days == 1..3

\* entries of the dated points, hundredths
DatedValues == {Num(20), Num(50), Num(80)}

MaxDated == 3

InitChangeDated ==
    /\ pc = "call"
    /\ ret = NoResult
    /\ ServiceLoaded
    /\ \E n \in 0..MaxDated :
         \E dates \in [1..n -> Days], values \in [1..n -> DatedValues],
            t \in ChangeThresholds :
            call = [op |-> "detect_sudden_change", dates |-> dates,
                    time_series |-> values, change_threshold |-> t]

DetectSuddenChangeDated ==
    /\ pc = "call"
    /\ call.op = "detect_sudden_change"
    /\ ret' = detect_sudden_change_dated(call.dates, call.time_series,
                                         call.change_threshold)
    /\ pc' = "done"
    /\ UNCHANGED <<call, service>>

SpecChangeDated == InitChangeDated /\ [][DetectSuddenChangeDated]_vars

\* the dates of the series never go back
Chronological(dates) == \A i \in 1..Len(dates) - 1 : dates[i] <= dates[i + 1]

\* C22: a call of detect_sudden_change whose points are not in chronological
\* order ends with a validation error and returns no events.
C22_OutOfOrderSeriesRejected ==
    (pc = "done" /\ call.op = "detect_sudden_change" /\ ~Chronological(call.dates))
        => ret.kind = "ValidationError"

(***************************************************************************)
(* Analysis jobs (routers/analysis.py).  jobs_db maps the ids of the jobs  *)
(* created so far to their records.  create_analysis adds                  *)
(* run_analysis_task as a background task, which runs in a worker thread   *)
(* beside the request handlers: task[j] is the statement the task of job j *)
(* has reached and the exception it has caught.  The handlers are          *)
(* coroutines without an await and run one at a time; the steps of the     *)
(* tasks interleave with them and with each other.  A step of a task is a  *)
(* provider call together with the registry writes that follow it.         *)
(* Timestamps are "None" or "utcnow"; farm_id and request are left out.    *)
(***************************************************************************)
MaxJobs == 1

\* the ids uuid4 can hand out
JobIds == 1..MaxJobs

\* 'result': None
NoJobResult == [source |-> "None"]

\* the record create_analysis stores
NewJob(job_id) ==
    [job_id |-> job_id, status |-> "pending", started_at |-> "None",
     completed_at |-> "None", progress |-> 0, message |-> "Job queued",
     result |-> NoJobResult]

\* images the provider finds for a request
ImageCounts == {0, 12}

\* the result stored from the provider's answers (lines 73-77)
GeeResult(count) == [source |-> "gee", images_processed |-> count]

\* the result of demo mode (lines 89-111)
MockResult_Missing == NoJobResult

MockResult == [source |-> "mock", images_processed |-> 12]

\* str(e) of what run_analysis_task catches
ErrorText(raised) ==
    CASE raised = "GEENoDataError" -> "No Sentinel-2 imagery found"
      [] raised = "GEEError" -> "Failed to initialize Earth Engine"
      [] OTHER -> "provider error"

\* 'except ImportError': the exceptions answered with demo data
DemoFallback_AnyError(raised) == raised # "none"

DemoFallback(raised) == raised = "ImportError"

At(j, position) == j \in DOMAIN task /\ task[j].at = position

\* the writes of a step to the record of job j
Write(j, fields) ==
    jobs_db' = [jobs_db EXCEPT ![j] =
                   [f \in DOMAIN @ |-> IF f \in DOMAIN fields THEN fields[f] ELSE @[f]]]

\* an exception leaves the inner try block: demo mode after an ImportError,
\* the handler of lines 118-121 after anything else
Raise(j, raised) ==
    IF DemoFallback(raised)
    THEN /\ task' = [task EXCEPT ![j] = [at |-> "demo", raised |-> raised]]
         /\ UNCHANGED jobs_db
    ELSE /\ task' = [task EXCEPT ![j] = [at |-> "returned", raised |-> raised]]
         /\ Write(j, [status |-> "failed", completed_at |-> "utcnow"] @@
                     [message |-> ErrorText(raised)])

Goto(j, position) == task' = [task EXCEPT ![j].at = position]

\* 'if _initialized: return' of module m
AlreadyInitialized_Never(m) == FALSE

AlreadyInitialized(m) == initialized[m]

\* get_ee() of gee_agri: TRUE when it returns, FALSE when init_gee raises
GetEeAgri(ok) ==
    IF AlreadyInitialized("gee_agri")
    THEN /\ ok = TRUE
         /\ UNCHANGED <<initialized, initialize_calls>>
    ELSE /\ initialize_calls' = initialize_calls + 1
         /\ initialized' = [initialized EXCEPT !.gee_agri = ok]

InitJobs ==
    /\ pc = "serving"
    /\ call = [op |-> "none"]
    /\ ret = NoResult
    /\ ServiceLoaded

\* POST /: create_analysis
CreateAnalysis ==
    \E job_id \in JobIds \ DOMAIN jobs_db :
        /\ jobs_db' = jobs_db @@ (job_id :> NewJob(job_id))
        /\ task' = task @@ (job_id :> [at |-> "queued", raised |-> "none"])
        /\ call' = [op |-> "create_analysis"]
        /\ ret' = [kind |-> "AnalysisJobResponse", job_id |-> job_id,
                   status |-> "pending", progress |-> 0, message |-> "Job queued"]
        /\ UNCHANGED <<pc, initialized, initialize_calls>>

\* GET /{job_id}: get_job_status
GetJobStatus ==
    \E job_id \in JobIds :
        /\ call' = [op |-> "get_job_status", job_id |-> job_id]
        /\ ret' = IF job_id \notin DOMAIN jobs_db
                  THEN [kind |-> "HTTPException", status_code |-> 404]
                  ELSE [kind |-> "AnalysisJobResponse", job_id |-> job_id,
                        status |-> jobs_db[job_id].status,
                        progress |-> jobs_db[job_id].progress,
                        message |-> jobs_db[job_id].message]
        /\ UNCHANGED <<pc, service>>

\* GET /{job_id}/result: get_job_result
GetJobResult ==
    \E job_id \in JobIds :
        /\ call' = [op |-> "get_job_result", job_id |-> job_id]
        /\ ret' = IF job_id \notin DOMAIN jobs_db
                  THEN [kind |-> "HTTPException", status_code |-> 404]
                  ELSE IF jobs_db[job_id].status # "completed"
                  THEN [kind |-> "HTTPException", status_code |-> 400]
                  ELSE IF jobs_db[job_id].result = NoJobResult
                  THEN \* result['statistics'] with result None
                       [kind |-> "TypeError"]
                  ELSE [kind |-> "AnalysisResultResponse", job_id |-> job_id,
                        status |-> jobs_db[job_id].status,
                        result |-> jobs_db[job_id].result]
        /\ UNCHANGED <<pc, service>>

\* DELETE /{job_id}: cancel_job
CancelJob ==
    \E job_id \in JobIds :
        /\ call' = [op |-> "cancel_job", job_id |-> job_id]
        /\ IF job_id \notin DOMAIN jobs_db
           THEN /\ ret' = [kind |-> "HTTPException", status_code |-> 404]
                /\ UNCHANGED jobs_db
           ELSE IF jobs_db[job_id].status \in {"completed", "failed"}
           THEN /\ ret' = [kind |-> "HTTPException", status_code |-> 400]
                /\ UNCHANGED jobs_db
           ELSE /\ ret' = [kind |-> "Job cancelled"]
                /\ Write(job_id, [status |-> "failed", completed_at |-> "utcnow"] @@
                                 [message |-> "Cancelled by user"])
        /\ UNCHANGED <<pc, task, initialized, initialize_calls>>

\* lines 29-32
TaskBegin(j) ==
    /\ At(j, "queued")
    /\ Write(j, [status |-> "processing", started_at |-> "utcnow"] @@
                [progress |-> 10] @@ [message |-> "Querying Sentinel-2 imagery..."])
    /\ Goto(j, "import")
    /\ UNCHANGED <<pc, call, ret, initialized, initialize_calls>>

\* lines 36-39: the import of services.gee_agri works or raises ImportError
TaskImport(j) ==
    /\ At(j, "import")
    /\ \/ Goto(j, "geometry") /\ UNCHANGED jobs_db
       \/ Raise(j, "ImportError")
    /\ UNCHANGED <<pc, call, ret, initialized, initialize_calls>>

\* lines 42-45: geometry_to_ee, which calls get_ee and builds a polygon the
\* provider may refuse
TaskGeometry(j) ==
    /\ At(j, "geometry")
    /\ \E ok \in BOOLEAN, polygon \in BOOLEAN :
         /\ GetEeAgri(ok)
         /\ IF ~ok THEN Raise(j, "GEEError")
            ELSE IF ~polygon THEN Raise(j, "EEException")
            ELSE /\ Write(j, [progress |-> 30] @@
                             [message |-> "Calculating vegetation indices..."])
                 /\ Goto(j, "statistics")
    /\ UNCHANGED <<pc, call, ret>>

\* lines 48-57: calculate_index_statistics, whose get_s2_collection raises
\* GEENoDataError for a count of 0
TaskStatistics(j) ==
    /\ At(j, "statistics")
    /\ \E ok \in BOOLEAN, count \in ImageCounts :
         /\ GetEeAgri(ok)
         /\ IF ~ok THEN Raise(j, "GEEError")
            ELSE IF count = 0 THEN Raise(j, "GEENoDataError")
            ELSE /\ Write(j, [progress |-> 70] @@
                             [message |-> "Generating histograms..."])
                 /\ Goto(j, "histogram")
    /\ UNCHANGED <<pc, call, ret>>

\* lines 60-77: calculate_index_histogram, then the result is stored
TaskHistogram(j) ==
    /\ At(j, "histogram")
    /\ \E ok \in BOOLEAN, count \in ImageCounts :
         /\ GetEeAgri(ok)
         /\ IF ~ok THEN Raise(j, "GEEError")
            ELSE IF count = 0 THEN Raise(j, "GEENoDataError")
            ELSE /\ Write(j, [progress |-> 90] @@
                             [message |-> "Finalizing results..."] @@
                             [result |-> GeeResult(count)])
                 /\ Goto(j, "complete")
    /\ UNCHANGED <<pc, call, ret>>

\* jobs_db[job_id]['progress'] = 50; the variant falls below the 10 of line 31
DemoProgress_Low == 10 - 5

DemoProgress == 50

\* lines 81-84
TaskDemo(j) ==
    /\ At(j, "demo")
    /\ Write(j, [progress |-> DemoProgress] @@
                [message |-> "Processing (demo mode)..."])
    /\ Goto(j, "demo_result")
    /\ UNCHANGED <<pc, call, ret, initialized, initialize_calls>>

\* lines 86-111
TaskDemoResult(j) ==
    /\ At(j, "demo_result")
    /\ Write(j, [result |-> MockResult])
    /\ Goto(j, "complete")
    /\ UNCHANGED <<pc, call, ret, initialized, initialize_calls>>

\* lines 113-116
TaskComplete(j) ==
    /\ At(j, "complete")
    /\ Write(j, [status |-> "completed", completed_at |-> "utcnow"] @@
                [progress |-> 100] @@ [message |-> "Analysis complete"])
    /\ Goto(j, "returned")
    /\ UNCHANGED <<pc, call, ret, initialized, initialize_calls>>

\* one step of run_analysis_task(j, request)
RunAnalysisTask(j) ==
    \/ TaskBegin(j)
    \/ TaskImport(j)
    \/ TaskGeometry(j)
    \/ TaskStatistics(j)
    \/ TaskHistogram(j)
    \/ TaskDemo(j)
    \/ TaskDemoResult(j)
    \/ TaskComplete(j)

NextJobs ==
    \/ CreateAnalysis
    \/ GetJobStatus
    \/ GetJobResult
    \/ CancelJob
    \/ \E j \in JobIds : RunAnalysisTask(j)

SpecJobs == InitJobs /\ [][NextJobs]_vars

\* the task of job j has returned after get_s2_collection raised
\* GEENoDataError
EndedWithoutImagery(j) == At(j, "returned") /\ task[j].raised = "GEENoDataError"

\* C23: a job whose task met GEENoDataError (the provider counted 0 images)
\* ends in status FAILED with no result stored; it is never COMPLETED with
\* mock data.
C23_NoImageryFailsJob ==
    \A j \in DOMAIN jobs_db :
        (j \in DOMAIN task /\ task[j].raised = "GEENoDataError") =>
            /\ At(j, "returned")
            /\ jobs_db[j].status = "failed"
            /\ jobs_db[j].result = NoJobResult

\* the histogram query of a job finds no imagery after its statistics query
\* found some
C23_Witness ==
    \E j \in DOMAIN jobs_db :
        /\ EndedWithoutImagery(j)
        /\ jobs_db[j].progress = 70
        /\ jobs_db[j].message = "No Sentinel-2 imagery found"

(***************************************************************************)
(* Determinism of detect_lulc_change                                       *)
(***************************************************************************)
\* C24: detect_lulc_change is a function of its explicit inputs: every run
\* on the maps and threshold of the call returns what this run returned, the
\* flagged classes being the same elements in the same order.
C24_LulcChangeDeterministic ==
    LulcReturned =>
        \A order \in Orders(AllClasses(call.current_classification,
                                       call.previous_classification)) :
            detect_lulc_change(call.current_classification,
                               call.previous_classification,
                               call.min_change_percent, order) = ret

(***************************************************************************)
(* Water stress as a function of LSWI: the stress detectors called with    *)
(* LSWI alone, the other indices taking their defaults.                    *)
(***************************************************************************)
\* LSWI values, hundredths
WaterLswi == -60..40

InitWater ==
    /\ pc = "call"
    /\ ret = NoResult
    /\ ServiceLoaded
    /\ \E w \in WaterLswi :
         \/ call = [op |-> "detect_stress", weather |-> NoWeather,
                    indices |-> [LSWI |-> Num(w)]]
         \/ call = [op |-> "generate_mock_stress", weather |-> Weather(Absent),
                    indices |-> [LSWI |-> Num(w)]]

NextWater == DetectStress \/ GenerateMockStress

SpecWater == InitWater /\ [][NextWater]_vars

\* the water-stress level the called function returns for LSWI w
WaterLevelAt(w) ==
    IF call.op = "detect_stress"
    THEN detect_stress([LSWI |-> Num(w)], call.weather).water_stress.level
    ELSE generate_mock_stress([LSWI |-> Num(w)], call.weather).water_stress.level

\* C28: the water-stress level does not increase with LSWI: every wetter
\* canopy (higher LSWI) gets a level no higher than the one returned.
C28_WaterStressMonotone ==
    (pc = "done" /\ call.op \in {"detect_stress", "generate_mock_stress"}) =>
        \A w \in WaterLswi :
            w >= call.indices.LSWI.v => WaterLevelAt(w) <= ret.water_stress.level

(***************************************************************************)
(* The last rungs of the crop-stage ladder                                 *)
(***************************************************************************)
\* ndvi_values[-1] - ndvi_values[-3] of the call
CallTrend ==
    call.ndvi_values[Len(call.ndvi_values)].v
        - call.ndvi_values[Len(call.ndvi_values) - 2].v

CallCurrent == call.ndvi_values[Len(call.ndvi_values)].v

\* C29: over a series of at least 3 NDVI values detect_crop_stage answers
\* "Unknown" (-1) only when the trend is exactly 0 and 0.25 <= current < 0.6,
\* "Harvest Ready" (7) only when the trend is exactly 0 and
\* 0.2 <= current < 0.25, and every series with a non-zero trend gets one of
\* the stages 0 to 6.
C29_UnknownAndHarvestNeedFlatTrend ==
    (StageReturned /\ Len(call.ndvi_values) >= 3 /\ NumericSeries) =>
        /\ ret.kind = "stage"
        /\ (ret.stage = "Unknown") = (ret.stage_code = -1)
        /\ (ret.stage = "Harvest Ready") = (ret.stage_code = 7)
        /\ ret.stage_code = -1 =>
              CallTrend = 0 /\ 25 <= CallCurrent /\ CallCurrent < 60
        /\ ret.stage_code = 7 =>
              CallTrend = 0 /\ 20 <= CallCurrent /\ CallCurrent < 25
        /\ CallTrend # 0 => ret.stage_code \in 0..6

\* a flat series at 0.22 after a dip, answered with "Harvest Ready"
C29_Witness ==
    /\ StageReturned
    /\ call.ndvi_values = <<Num(22), Num(15), Num(22)>>
    /\ ret.stage = "Harvest Ready"
    /\ ret.stage_code = 7

(***************************************************************************)
(* Cancelled jobs                                                          *)
(***************************************************************************)
\* cancel_job has succeeded for job j and nothing has written to it since
Cancelled(j) ==
    /\ j \in DOMAIN jobs_db
    /\ jobs_db[j].status = "failed"
    /\ jobs_db[j].message = "Cancelled by user"

\* C25: a job cancelled by cancel_job stays cancelled: no step of its
\* background task or of a handler changes its status or its message
\* afterwards.
C25_CancelledStaysCancelled ==
    [][\A j \in JobIds : Cancelled(j) => Cancelled(j)']_vars

(***************************************************************************)
(* Results of completed jobs                                               *)
(***************************************************************************)
\* C26: in every state of the registry a COMPLETED job has a stored result,
\* and get_job_result answers a job that is not COMPLETED with an error, so
\* that it never reads a missing result.
C26_CompletedJobsHaveResult ==
    /\ \A j \in DOMAIN jobs_db :
          jobs_db[j].status = "completed" => jobs_db[j].result # NoJobResult
    /\ call.op = "get_job_result" =>
          /\ ret.kind # "TypeError"
          /\ ret.kind = "AnalysisResultResponse" =>
                /\ call.job_id \in DOMAIN jobs_db
                /\ jobs_db[call.job_id].status = "completed"
                /\ ret.result = jobs_db[call.job_id].result
                /\ ret.result # NoJobResult
          /\ (call.job_id \in DOMAIN jobs_db
                /\ jobs_db[call.job_id].status # "completed") =>
                ret.kind = "HTTPException"

\* get_job_result has answered with the stored result of a completed job
C26_Witness ==
    /\ call.op = "get_job_result"
    /\ ret.kind = "AnalysisResultResponse"
    /\ ret.result = GeeResult(12)
    /\ jobs_db[call.job_id].status = "completed"
    /\ jobs_db[call.job_id].progress = 100
    /\ At(call.job_id, "returned")

(***************************************************************************)
(* Life of a job.  A background task that has been added is run by the     *)
(* server after the response, and a running task takes its next step as    *)
(* long as the provider answers: weak fairness of the steps of each task.  *)
(***************************************************************************)
SpecJobsFair == SpecJobs /\ \A j \in JobIds : WF_vars(RunAnalysisTask(j))

Terminal(j) == jobs_db[j].status \in {"completed", "failed"}

MaxInitializeCalls == 12

Modules == {"gee_agri", "gee_advanced"}

\* the body of init_gee of module m after the test of the flag
Initialize(m, ok) ==
    /\ initialize_calls < MaxInitializeCalls
    /\ initialize_calls' = initialize_calls + 1
    /\ initialized' = [initialized EXCEPT ![m] = IF ok THEN TRUE ELSE @]

InitProvider ==
    /\ pc = "serving"
    /\ call = [op |-> "none"]
    /\ ret = NoResult
    /\ ServiceLoaded

\* gee_agri.init_gee(): returns None or raises GEEError
AgriInitGee ==
    /\ call' = [op |-> "init_gee", module |-> "gee_agri"]
    /\ IF AlreadyInitialized("gee_agri")
       THEN /\ ret' = [kind |-> "None"]
            /\ UNCHANGED <<initialized, initialize_calls>>
       ELSE \E ok \in BOOLEAN :
              /\ Initialize("gee_agri", ok)
              /\ ret' = IF ok THEN [kind |-> "None"]
                        ELSE [kind |-> "GEEError"]
    /\ UNCHANGED <<pc, jobs_db, task>>

\* gee_agri.get_ee(): returns the ee module or lets GEEError through
AgriGetEe ==
    /\ call' = [op |-> "get_ee", module |-> "gee_agri"]
    /\ IF AlreadyInitialized("gee_agri")
       THEN /\ ret' = [kind |-> "ee"]
            /\ UNCHANGED <<initialized, initialize_calls>>
       ELSE \E ok \in BOOLEAN :
              /\ Initialize("gee_agri", ok)
              /\ ret' = IF ok THEN [kind |-> "ee"]
                        ELSE [kind |-> "GEEError"]
    /\ UNCHANGED <<pc, jobs_db, task>>

\* gee_advanced.init_gee(): returns True or False
AdvancedInitGee ==
    /\ call' = [op |-> "init_gee", module |-> "gee_advanced"]
    /\ IF AlreadyInitialized("gee_advanced")
       THEN /\ ret' = [kind |-> "True"]
            /\ UNCHANGED <<initialized, initialize_calls>>
       ELSE \E ok \in BOOLEAN :
              /\ Initialize("gee_advanced", ok)
              /\ ret' = IF ok THEN [kind |-> "True"]
                        ELSE [kind |-> "False"]
    /\ UNCHANGED <<pc, jobs_db, task>>

NextProvider == AgriInitGee \/ AgriGetEe \/ AdvancedInitGee

SpecProvider == InitProvider /\ [][NextProvider]_vars

\* C30: over any sequence of init_gee and get_ee calls, the flag of a module
\* becomes true only in a call of that module whose initialization succeeded
\* and never goes back to false; a call made when the flag is true does not
\* initialize the provider again; a call whose initialization fails leaves
\* the flag false, and the next call of the module initializes again.
C30_InitializedFlag ==
    [][\A m \in Modules :
         /\ initialized[m] => initialized'[m]
         /\ (~initialized[m] /\ initialized'[m]) =>
               /\ call'.module = m
               /\ ret'.kind \in {"None", "ee", "True"}
               /\ initialize_calls' = initialize_calls + 1
         /\ (initialized[m] /\ call'.module = m) =>
               initialize_calls' = initialize_calls
         /\ (call'.module = m /\ ret'.kind \in {"GEEError", "False"}) =>
               ~initialized'[m]
         /\ (~initialized[m] /\ call'.module = m) =>
               initialize_calls' = initialize_calls + 1]_vars

\* a first initialization of gee_agri has failed, a later call has retried it
\* with success, and get_ee has then returned without initializing
C30_Witness ==
    /\ call = [op |-> "get_ee", module |-> "gee_agri"]
    /\ ret = [kind |-> "ee"]
    /\ initialized.gee_agri
    /\ ~initialized.gee_advanced
    /\ initialize_calls = 3

====
